---- MODULE Spec2Model ----
(***************************************************************************)
(* printf-log-formatter: rewriting of logging calls whose first argument   *)
(* is an f-string or a str.format() call into printf-style logging calls.  *)
(*                                                                         *)
(* Text is modelled as a sequence of one-character strings, a file as a    *)
(* sequence of lines.  The alphabet is ASCII, so that a column counts      *)
(* characters and bytes alike.                                             *)
(***************************************************************************)
EXTENDS Integers, Sequences, FiniteSets, TLC

(***************************************************************************)
(* Text helpers (Rust String operations).                                  *)
(***************************************************************************)

\* [a, b) of s, 0-based, as a Rust range a..b
Sub(s, a, b) == SubSeq(s, a + 1, b)

\* String::replace_range(a..b, with)
replace_range(s, a, b, with) == Sub(s, 0, a) \o with \o Sub(s, b, Len(s))

RECURSIVE Join(_, _)
\* [String]::join(sep)
Join(ss, sep) ==
    IF ss = <<>> THEN <<>>
    ELSE IF Len(ss) = 1 THEN ss[1]
    ELSE ss[1] \o sep \o Join(Tail(ss), sep)

RECURSIVE CountAt(_, _, _)
\* the number of occurrences of the text pat in s at positions >= i (1-based)
CountAt(s, pat, i) ==
    IF i + Len(pat) - 1 > Len(s) THEN 0
    ELSE IF SubSeq(s, i, i + Len(pat) - 1) = pat
         THEN 1 + CountAt(s, pat, i + Len(pat))
         ELSE CountAt(s, pat, i + 1)

PS == <<"%", "s">>
COMMA == <<",", " ">>

\* the number of `%s` in s
CountPS(s) == CountAt(s, PS, 1)

\* whether pat occurs in s
Contains(s, pat) == CountAt(s, pat, 1) > 0

(***************************************************************************)
(* The syntax tree of rustpython_parser::ast, as far as the program reads  *)
(* it.  A node is a record with a field kind; a parsed node also carries   *)
(* its location (row, col) and end_location (erow, ecol).                  *)
(***************************************************************************)

CStr(t) == [ctype |-> "Str", text |-> t]
CInt(t) == [ctype |-> "Int", text |-> t]
CNone == [ctype |-> "None"]
CBool(b) == [ctype |-> "Bool", b |-> b]
CEllipsis == [ctype |-> "Ellipsis"]
CTuple(items) == [ctype |-> "Tuple", items |-> items]

Name(id) == [kind |-> "Name", id |-> id]
Constant(c) == [kind |-> "Constant", value |-> c]
Attribute(v, attr) == [kind |-> "Attribute", value |-> v, attr |-> attr]
Call(func, args, keywords) ==
    [kind |-> "Call", func |-> func, args |-> args, keywords |-> keywords]
\* KeywordData { arg, value }; every keyword of the model is named
Keyword(arg, v) == [arg |-> arg, value |-> v]
BinOp(l, op, r) == [kind |-> "BinOp", left |-> l, op |-> op, right |-> r]
BoolOp(values) == [kind |-> "BoolOp", values |-> values]
JoinedStr(values) == [kind |-> "JoinedStr", values |-> values]
FormattedValue(v, spec) ==
    [kind |-> "FormattedValue", value |-> v, format_spec |-> spec]
Subscript(v, slice) == [kind |-> "Subscript", value |-> v, slice |-> slice]
\* Comprehension { target, iter, .. }
Comprehension(target, iter) == [target |-> target, iter |-> iter]
ListComp(elt, generators) == [kind |-> "ListComp", elt |-> elt, generators |-> generators]
GeneratorExp(elt, generators) ==
    [kind |-> "GeneratorExp", elt |-> elt, generators |-> generators]
DictComp(key, v, generators) ==
    [kind |-> "DictComp", key |-> key, value |-> v, generators |-> generators]
\* a node kind the resolver has no arm for (Compare, Lambda, ...)
OtherExpr == [kind |-> "Other"]

(***************************************************************************)
(* visitor.rs: literal-to-text rules.                                      *)
(***************************************************************************)

RECURSIVE constant_to_string(_)
constant_to_string(c) ==
    CASE c.ctype = "None" -> <<"N", "o", "n", "e">>
      [] c.ctype = "Bool" ->
            \* bool::to_string
            IF c.b THEN <<"t", "r", "u", "e">> ELSE <<"f", "a", "l", "s", "e">>
      [] c.ctype = "Str" -> c.text
      [] c.ctype = "Int" -> c.text
      [] c.ctype = "Ellipsis" -> <<".", ".", ".">>
      [] c.ctype = "Tuple" ->
            <<"(">> \o
            Join([i \in 1..Len(c.items) |-> constant_to_string(c.items[i])], COMMA)
            \o <<")">>

operator_to_string(op) ==
    CASE op = "Add" -> <<"+">>
      [] op = "Sub" -> <<"-">>
      [] op = "Mult" -> <<"*">>
      [] op = "Mod" -> <<"%">>

(***************************************************************************)
(* parse_fstring.rs: the resolver of one interpolated value, and           *)
(* parse_format.rs: get_args_and_keywords.  A Result is a record with a    *)
(* field ok.                                                               *)
(***************************************************************************)

Err == [ok |-> FALSE]
OkStr(s) == [ok |-> TRUE, s |-> s]

NamedArg(key, value) == [key |-> key, value |-> value]

\* "{key}={value}" of every named argument
NamedArgTexts(f_named_args) ==
    [i \in 1..Len(f_named_args) |->
        f_named_args[i].key \o <<"=">> \o constant_to_string(f_named_args[i].value)]

RECURSIVE parse_formatted_value(_, _, _, _)
RECURSIVE get_args_and_keywords(_, _, _)
RECURSIVE KeywordsLoop(_, _, _)
RECURSIVE ArgsLoop(_, _, _)
RECURSIVE GeneratorsLoop(_, _, _, _)

\* the loop over keywords of get_args_and_keywords
KeywordsLoop(keywords, f_args, f_named_args) ==
    IF keywords = <<>> THEN [ok |-> TRUE, f_args |-> f_args, f_named_args |-> f_named_args]
    ELSE LET kw == Head(keywords) IN
         CASE kw.value.kind = "Constant" ->
                KeywordsLoop(Tail(keywords), f_args,
                             Append(f_named_args, NamedArg(kw.arg, kw.value.value)))
           [] kw.value.kind = "Name" ->
                KeywordsLoop(Tail(keywords), Append(f_args, kw.value.id), f_named_args)
           [] OTHER -> Err

\* the loop over args of get_args_and_keywords
ArgsLoop(args, f_args, quote) ==
    IF args = <<>> THEN [ok |-> TRUE, f_args |-> f_args]
    ELSE LET Push(r) ==
                 IF r.ok THEN ArgsLoop(Tail(args), Append(f_args, r.s), quote) ELSE Err
         IN  Push(parse_formatted_value(Head(args), <<>>, FALSE, quote))

\* the loop over generators of a comprehension: s grown by
\* " for {target} in {iter}" of each
GeneratorsLoop(generators, s, postfix, quote) ==
    IF generators = <<>> THEN OkStr(s)
    ELSE LET Grown(t, i) ==
                 IF ~t.ok \/ ~i.ok THEN Err
                 ELSE GeneratorsLoop(Tail(generators),
                                     s \o <<" ", "f", "o", "r", " ">> \o t.s
                                       \o <<" ", "i", "n", " ">> \o i.s,
                                     postfix, quote)
         IN  Grown(parse_formatted_value(Head(generators).target, postfix, TRUE, quote),
                   parse_formatted_value(Head(generators).iter, postfix, TRUE, quote))

get_args_and_keywords(args, keywords, quote) ==
    LET Both(k, a) ==
            IF ~a.ok THEN Err
            ELSE [ok |-> TRUE, f_args |-> a.f_args, f_named_args |-> k.f_named_args]
        Positional(k) ==
            IF ~k.ok THEN Err ELSE Both(k, ArgsLoop(args, k.f_args, quote))
    IN  Positional(KeywordsLoop(keywords, <<>>, <<>>))

parse_formatted_value(value, postfix, in_call, quote) ==
    CASE value.kind = "Name" ->
            IF postfix = <<>> THEN OkStr(value.id)
            ELSE OkStr(value.id \o <<".">> \o postfix)
      [] value.kind = "Attribute" ->
            IF postfix = <<>>
            THEN parse_formatted_value(value.value, value.attr, FALSE, quote)
            ELSE parse_formatted_value(value.value, value.attr \o <<".">> \o postfix,
                                       FALSE, quote)
      [] value.kind = "Constant" ->
            IF in_call
            THEN OkStr(<<quote>> \o constant_to_string(value.value) \o <<quote>>)
            ELSE OkStr(constant_to_string(value.value))
      [] value.kind = "Call" ->
            LET CallString(ak) ==
                    IF ~ak.ok THEN Err
                    ELSE CASE value.func.kind = "Name" ->
                                LET named == Join(NamedArgTexts(ak.f_named_args), COMMA)
                                    pos == Join(ak.f_args, COMMA)
                                IN  IF ak.f_args # <<>> /\ named # <<>>
                                    THEN OkStr(value.func.id \o <<"(">> \o pos \o COMMA
                                               \o named \o <<")">>)
                                    ELSE OkStr(value.func.id \o <<"(">> \o pos \o named
                                               \o <<")">>)
                           [] value.func.kind = "Attribute" ->
                                LET call == <<"(">>
                                            \o Join(ak.f_args
                                                    \o NamedArgTexts(ak.f_named_args),
                                                    COMMA)
                                            \o <<")">>
                                    recv == parse_formatted_value(value.func.value,
                                                                  postfix, TRUE, quote)
                                IN  IF ~recv.ok THEN Err
                                    ELSE OkStr(recv.s \o <<".">> \o value.func.attr
                                               \o call)
                           [] OTHER -> Err
            IN  CallString(get_args_and_keywords(value.args, value.keywords, quote))
      [] value.kind = "BinOp" ->
            LET l == parse_formatted_value(value.left, postfix, FALSE, quote)
                r == parse_formatted_value(value.right, postfix, FALSE, quote)
            IN  IF ~l.ok \/ ~r.ok THEN Err
                ELSE OkStr(l.s \o <<" ">> \o operator_to_string(value.op) \o <<" ">>
                           \o r.s)
      [] value.kind = "Subscript" ->
            LET Indexed(v, sl) ==
                    IF ~v.ok \/ ~sl.ok THEN Err
                    ELSE OkStr(v.s \o <<"[", quote>> \o sl.s \o <<quote, "]">>)
            IN  Indexed(parse_formatted_value(value.value, postfix, FALSE, quote),
                        parse_formatted_value(value.slice, postfix, FALSE, quote))
      [] value.kind \in {"ListComp", "GeneratorExp"} ->
            LET Closed(r) == IF r.ok THEN OkStr(r.s \o <<"]">>) ELSE Err
                Opened(elt) ==
                    IF ~elt.ok THEN Err
                    ELSE Closed(GeneratorsLoop(value.generators, <<"[">> \o elt.s,
                                               postfix, quote))
            IN  Opened(parse_formatted_value(value.elt, postfix, TRUE, quote))
      [] value.kind = "DictComp" ->
            LET Closed(r) == IF r.ok THEN OkStr(r.s \o <<"}">>) ELSE Err
                Opened(k, v) ==
                    IF ~k.ok \/ ~v.ok THEN Err
                    ELSE Closed(GeneratorsLoop(value.generators,
                                               <<"{">> \o k.s \o <<":", " ">> \o v.s,
                                               postfix, quote))
            IN  Opened(parse_formatted_value(value.key, postfix, TRUE, quote),
                       parse_formatted_value(value.value, postfix, TRUE, quote))
      [] value.kind = "JoinedStr" -> Err
      [] OTHER -> Err

(***************************************************************************)
(* parse_fstring.rs: the template builder of an f-string.                  *)
(***************************************************************************)

None == [some |-> FALSE]
Some(v) == [some |-> TRUE, v |-> v]

\* (mutant) a FormattedValue that fails to resolve is passed over: the
\* template goes on without it
parse_fstring_skipping(value, string, args, quote) ==
    CASE value.kind = "Constant" ->
            [ok |-> TRUE, string |-> string \o constant_to_string(value.value),
             args |-> args]
      [] value.kind = "FormattedValue" ->
            LET Push(r) ==
                    IF r.ok
                    THEN [ok |-> TRUE, string |-> string \o PS,
                          args |-> Append(args, r.s)]
                    ELSE [ok |-> TRUE, string |-> string, args |-> args]
            IN  Push(parse_formatted_value(value.value, <<>>, FALSE, quote))
      [] OTHER -> Err

\* (mutant) a FormattedValue adds its `%s` and drops its argument
parse_fstring_noarg(value, string, args, quote) ==
    CASE value.kind = "Constant" ->
            [ok |-> TRUE, string |-> string \o constant_to_string(value.value),
             args |-> args]
      [] value.kind = "FormattedValue" ->
            [ok |-> TRUE, string |-> string \o PS, args |-> args]
      [] OTHER -> Err

\* one value of the f-string: Ok with the grown (string, args), or Err
parse_fstring(value, string, args, quote) ==
    CASE value.kind = "Constant" ->
            [ok |-> TRUE, string |-> string \o constant_to_string(value.value),
             args |-> args]
      [] value.kind = "FormattedValue" ->
            LET Push(r) ==
                    IF r.ok
                    THEN [ok |-> TRUE, string |-> string \o PS,
                          args |-> Append(args, r.s)]
                    ELSE Err
            IN  Push(parse_formatted_value(value.value, <<>>, FALSE, quote))
      [] OTHER -> Err

RECURSIVE FstringLoop(_, _, _, _)
FstringLoop(values, string, args, quote) ==
    IF values = <<>> THEN Some([content |-> string, vars |-> args])
    ELSE LET Rest(r) ==
                 IF r.ok THEN FstringLoop(Tail(values), r.string, r.args, quote) ELSE None
         IN  Rest(parse_fstring(Head(values), string, args, quote))

\* Option<(String, Vec<String>)>
fix_fstring(values, quote) == FstringLoop(values, <<>>, <<>>, quote)

(***************************************************************************)
(* parse_format.rs: the regular expressions.  A match is a record          *)
(* [found, start, end, key], start..end a Rust byte range.                 *)
(***************************************************************************)

NoMatch == [found |-> FALSE]

RECURSIVE NextOf(_, _, _)
\* the first position >= i (1-based) of s holding a character of cs, or 0
NextOf(s, cs, i) ==
    IF i > Len(s) THEN 0
    ELSE IF s[i] \in cs THEN i
    ELSE NextOf(s, cs, i + 1)

\* (mutant) the group regex without its colon: group 1 is all the braces hold
group_key_whole(s, b, e) == SubSeq(s, b + 1, e - 1)

\* capture group 1 of FORMATTED_VALUE_GROUP_REGEX for the match whose braces
\* are at the positions b and e of s: ([^{}:]*), the text before the first colon
group_key(s, b, e) ==
    LET colon == NextOf(SubSeq(s, 1, e - 1), {":"}, b + 1) IN
    IF colon = 0 THEN SubSeq(s, b + 1, e - 1) ELSE SubSeq(s, b + 1, colon - 1)

RECURSIVE group_find(_, _)
\* FORMATTED_VALUE_GROUP_REGEX \{([^{}:]*)(?::[^{}]*)?\} and
\* FORMATTED_VALUE_GROUP_REGEX_COLON_CHARACTERS \{[^{}]*(:[^{}]*)?\} match the same
\* ranges: a `{` whose next brace is a `}`.  The leftmost match at or after i.
group_find(s, i) ==
    LET b == NextOf(s, {"{"}, i) IN
    IF b = 0 THEN NoMatch
    ELSE LET e == NextOf(s, {"{", "}"}, b + 1) IN
         IF e # 0 /\ s[e] = "}"
         THEN [found |-> TRUE, start |-> b - 1, end |-> e, key |-> group_key(s, b, e)]
         ELSE group_find(s, b + 1)

RECURSIVE captures_iter(_, _)
\* Regex::captures_iter: the successive non-overlapping matches from i on
captures_iter(s, i) ==
    LET Matches(m) == IF ~m.found THEN <<>> ELSE <<m>> \o captures_iter(s, m.end + 1)
    IN  Matches(group_find(s, i))

RECURSIVE formatted_value_count(_, _)
\* FORMATTED_VALUE_REGEX \{.*?\}: find_iter(..).count() from i on
formatted_value_count(s, i) ==
    LET b == NextOf(s, {"{"}, i) IN
    IF b = 0 THEN 0
    ELSE LET e == NextOf(s, {"}"}, b + 1) IN
         IF e = 0 THEN 0 ELSE 1 + formatted_value_count(s, e + 1)

\* the first match of the group regex in string whose group 1 is key
get_named_arg_index_start_end(string, key) ==
    LET First(caps) ==
            LET hits == {i \in 1..Len(caps) : caps[i].key = key} IN
            IF hits = {} THEN NoMatch
            ELSE caps[CHOOSE i \in hits : \A j \in hits : i <= j]
    IN  First(captures_iter(string, 1))

RECURSIVE IndexesFrom(_, _, _)
IndexesFrom(caps, key, i) ==
    IF i > Len(caps) THEN <<>>
    ELSE IF caps[i].key = key THEN <<i - 1>> \o IndexesFrom(caps, key, i + 1)
    ELSE IndexesFrom(caps, key, i + 1)

\* the 0-based match numbers of the occurrences of key in string
get_named_arg_indexes(string, key) == IndexesFrom(captures_iter(string, 1), key, 1)

(***************************************************************************)
(* parse_format.rs: ordering of the arguments of a str.format() call.      *)
(* The state of the ordering is [st, new_string, ordered_arguments, msg]:  *)
(* st is "Ok", "Err" (bail!) or "Panic" (panic!, unwrap of None, index out *)
(* of bounds); msg is the text the panic message quotes.                   *)
(***************************************************************************)

OrderState(st, new_string, ordered, msg) ==
    [st |-> st, new_string |-> new_string, ordered_arguments |-> ordered, msg |-> msg]

UNWRAP_NONE == <<"u", "n", "w", "r", "a", "p">>
OUT_OF_BOUNDS == <<"i", "n", "d", "e", "x">>

RECURSIVE IndexLoop(_, _, _, _)
\* for index in indexes { ... } of order_keyword_arguments
IndexLoop(indexes, key, str_value, o) ==
    IF indexes = <<>> \/ o.st # "Ok" THEN o
    ELSE LET index == Head(indexes)
             Replace(m) ==
                 IF ~m.found
                 THEN OrderState("Err", o.new_string, o.ordered_arguments, <<>>)
                 ELSE IF index >= Len(o.ordered_arguments)
                 THEN OrderState("Panic", o.new_string, o.ordered_arguments,
                                 OUT_OF_BOUNDS)
                 ELSE IndexLoop(Tail(indexes), key, str_value,
                        OrderState("Ok",
                            replace_range(o.new_string, m.start, m.end, PS),
                            [o.ordered_arguments EXCEPT ![index + 1] = Some(str_value)],
                            <<>>))
         IN  Replace(get_named_arg_index_start_end(o.new_string, key))

RECURSIVE order_keyword_arguments(_, _, _)
order_keyword_arguments(string, f_named_args, o) ==
    IF f_named_args = <<>> \/ o.st # "Ok" THEN o
    ELSE LET keyword_arg == Head(f_named_args) IN
         order_keyword_arguments(string, Tail(f_named_args),
            IndexLoop(get_named_arg_indexes(string, keyword_arg.key), keyword_arg.key,
                      constant_to_string(keyword_arg.value), o))

\* ordered_arguments.iter().position(Option::is_none), 1-based, or 0
FirstNone(ordered) ==
    LET nones == {i \in 1..Len(ordered) : ~ordered[i].some} IN
    IF nones = {} THEN 0 ELSE CHOOSE i \in nones : \A j \in nones : i <= j

RECURSIVE order_arguments(_, _)
order_arguments(f_args, o) ==
    IF f_args = <<>> \/ o.st # "Ok" THEN o
    ELSE LET arg == Head(f_args)
             Replace(mat, index) ==
                 IF ~mat.found
                 THEN OrderState("Panic", o.new_string, o.ordered_arguments, arg)
                 ELSE IF index = 0
                 THEN OrderState("Panic", o.new_string, o.ordered_arguments,
                                 UNWRAP_NONE)
                 ELSE order_arguments(Tail(f_args),
                        OrderState("Ok",
                            replace_range(o.new_string, mat.start, mat.end, PS),
                            [o.ordered_arguments EXCEPT ![index] = Some(arg)],
                            <<>>))
         IN  Replace(group_find(o.new_string, 1), FirstNone(o.ordered_arguments))

\* keyword arguments first, then the positional ones
order(string, f_args, f_named_args, o) ==
    LET Positional(k) == IF k.st = "Ok" THEN order_arguments(f_args, k) ELSE k
    IN  Positional(order_keyword_arguments(string, f_named_args, o))

\* the string of the str.format() call: the literal the attribute is taken on
format_string(func) ==
    IF func.kind = "Attribute" /\ func.value.kind = "Constant"
       /\ func.value.value.ctype = "Str"
    THEN func.value.value.text
    ELSE <<>>

\* Result<Option<(String, Vec<String>)>>, or a panic:
\* [st |-> "Ok", content, vars], [st |-> "Err"], [st |-> "Panic", msg]
fix_format_call(func, args, keywords, quote) ==
    LET Unwrapped(n, o) ==
            CASE o.st = "Err" -> [st |-> "Err"]
              [] o.st = "Panic" -> [st |-> "Panic", msg |-> o.msg]
              [] OTHER ->
                   IF \E i \in 1..n : ~o.ordered_arguments[i].some
                   THEN [st |-> "Panic", msg |-> UNWRAP_NONE]
                   ELSE [st |-> "Ok", content |-> o.new_string,
                         vars |-> [i \in 1..n |-> o.ordered_arguments[i].v]]
        Ordered(ak, string, n) ==
            Unwrapped(n, order(string, ak.f_args, ak.f_named_args,
                               OrderState("Ok", string, [i \in 1..n |-> None], <<>>)))
        Counted(ak, string) == Ordered(ak, string, formatted_value_count(string, 1))
        Fix(ak) == IF ~ak.ok THEN [st |-> "Err"] ELSE Counted(ak, format_string(func))
    IN  Fix(get_args_and_keywords(args, keywords, quote))

(***************************************************************************)
(* rustpython_parser::parse_program, as far as the files of the model go:  *)
(* expression statements made of names, numbers, strings and f-strings     *)
(* (adjacent ones concatenated), attributes, calls with positional and     *)
(* keyword arguments, `%` and `or`.  A line break inside parentheses does  *)
(* not end a statement.  The result is "ok" with the statements, "err" for *)
(* a syntax error, "unmodelled" for Python this model of the parser does   *)
(* not cover.                                                              *)
(***************************************************************************)

LOWER_CASE ==
    <<"a", "b", "c", "d", "e", "f", "g", "h", "i", "j", "k", "l", "m", "n", "o",
      "p", "q", "r", "s", "t", "u", "v", "w", "x", "y", "z">>
UPPER_CASE ==
    <<"A", "B", "C", "D", "E", "F", "G", "H", "I", "J", "K", "L", "M", "N", "O",
      "P", "Q", "R", "S", "T", "U", "V", "W", "X", "Y", "Z">>
LETTERS ==
    {LOWER_CASE[i] : i \in 1..Len(LOWER_CASE)}
    \cup {UPPER_CASE[i] : i \in 1..Len(UPPER_CASE)} \cup {"_"}

\* the text in lower case
ToLower(c) ==
    IF \E i \in 1..Len(UPPER_CASE) : UPPER_CASE[i] = c
    THEN LOWER_CASE[CHOOSE i \in 1..Len(UPPER_CASE) : UPPER_CASE[i] = c]
    ELSE c
Lowered(s) == [i \in 1..Len(s) |-> ToLower(s[i])]
DIGIT_CHARS == {"0", "1", "2", "3", "4", "5", "6", "7", "8", "9"}
QUOTE_CHARS == {"'", "\""}
PUNCT == {"(", ")", ",", ".", "=", "%"}
OR == <<"o", "r">>
\* the prefixes of an f-string (f, raw f), and the other string prefixes, in
\* lower case: a prefix is of any letter case
FSTRING_PREFIXES == {<<"f">>, <<"f", "r">>, <<"r", "f">>}
STRING_PREFIXES == {<<"r">>, <<"b">>, <<"u">>, <<"b", "r">>, <<"r", "b">>}
\* reserved words other than `or`
KEYWORDS ==
    {<<"a", "n", "d">>, <<"n", "o", "t">>, <<"i", "n">>, <<"i", "s">>, <<"i", "f">>,
     <<"e", "l", "s", "e">>, <<"f", "o", "r">>, <<"a", "s">>, <<"d", "e", "f">>,
     <<"d", "e", "l">>, <<"t", "r", "y">>, <<"w", "i", "t", "h">>,
     <<"f", "r", "o", "m">>, <<"p", "a", "s", "s">>, <<"e", "l", "i", "f">>,
     <<"w", "h", "i", "l", "e">>, <<"c", "l", "a", "s", "s">>,
     <<"r", "a", "i", "s", "e">>, <<"y", "i", "e", "l", "d">>,
     <<"b", "r", "e", "a", "k">>, <<"a", "s", "y", "n", "c">>,
     <<"a", "w", "a", "i", "t">>, <<"l", "a", "m", "b", "d", "a">>,
     <<"r", "e", "t", "u", "r", "n">>, <<"i", "m", "p", "o", "r", "t">>,
     <<"g", "l", "o", "b", "a", "l">>, <<"a", "s", "s", "e", "r", "t">>,
     <<"e", "x", "c", "e", "p", "t">>}

LexOk(toks) == [st |-> "ok", toks |-> toks]
Fail(st) == [st |-> st]
SYNTAX_ERROR == Fail("err")
UNMODELLED == Fail("unmodelled")

\* a token: its type t, its text v, its row and its columns col..ecol
Tok(t, v, row, col, ecol) ==
    [t |-> t, v |-> v, row |-> row, col |-> col, ecol |-> ecol, f |-> FALSE]
\* a string token: v is the text between the quotes, f whether it is an f-string
StrTok(v, row, col, ecol, f) ==
    [t |-> "STRING", v |-> v, row |-> row, col |-> col, ecol |-> ecol, f |-> f]

Cons(tok, rest) == IF rest.st = "ok" THEN LexOk(<<tok>> \o rest.toks) ELSE rest

\* what the parser makes of a token where none of the tokens it knows fits: an
\* operator or a reserved word may be Python the model does not cover
Unexpected(tok) ==
    IF \/ tok.t \in {"UNKNOWN", "PREFIXED"}
       \/ (tok.t = "NAME" /\ tok.v \in KEYWORDS)
       \/ (tok.t = "OP" /\ tok.v \in {<<"=">>, <<"(">>, <<".">>})
    THEN UNMODELLED
    ELSE SYNTAX_ERROR

\* the least of a non-empty set of numbers
Least(S) == CHOOSE k \in S : \A m \in S : k <= m

\* the first position >= i of line whose character is not in cs
SpanEnd(line, cs, i) ==
    LET First(stops) == IF stops = {} THEN Len(line) + 1 ELSE Least(stops)
    IN  First({k \in i..Len(line) : line[k] \notin cs})

\* the first position >= i of line whose character is in cs, or 0
Find(line, cs, i) ==
    LET First(hits) == IF hits = {} THEN 0 ELSE Least(hits)
    IN  First({k \in i..Len(line) : line[k] \in cs})

RECURSIVE StringSpans(_, _)
\* the strings of line from position i on, by the positions p and e of their
\* quotes, up to the first one that does not end on the line or is
\* triple-quoted (bad: where it opens, and what the lexer answers)
StringSpans(line, i) ==
    LET Rest(p, e, rest) ==
            [spans |-> <<[p |-> p, e |-> e]>> \o rest.spans, bad |-> rest.bad]
        Closed(p, e) ==
            IF e = 0
            THEN [spans |-> <<>>, bad |-> <<[at |-> p, res |-> SYNTAX_ERROR]>>]
            ELSE IF e = p + 1 /\ e + 1 <= Len(line) /\ line[e + 1] = line[p]
                 THEN [spans |-> <<>>, bad |-> <<[at |-> p, res |-> UNMODELLED]>>]
            ELSE Rest(p, e, StringSpans(line, e + 1))
        Opened(p) ==
            IF p = 0 THEN [spans |-> <<>>, bad |-> <<>>]
            ELSE Closed(p, Find(line, {line[p]}, p + 1))
    IN  Opened(Find(line, QUOTE_CHARS, i))

\* position k is within one of the strings
InString(spans, k) == \E s \in 1..Len(spans) : spans[s].p <= k /\ k <= spans[s].e

\* a word or a number starts at position k: the lexer is at i
RunStart(line, spans, i, k) ==
    /\ line[k] \in LETTERS \cup DIGIT_CHARS
    /\ ~InString(spans, k)
    /\ (k = i \/ line[k - 1] \notin LETTERS \cup DIGIT_CHARS)

\* where the token of the string that opens at p starts: at its prefix, if a
\* word that is a string prefix ends right before the quote, or at the quote
PrefixStart(line, i, p) ==
    LET Prefixed(start) ==
            IF /\ line[start] \in LETTERS
               /\ Lowered(SubSeq(line, start, p - 1))
                     \in FSTRING_PREFIXES \cup STRING_PREFIXES
            THEN start
            ELSE p
    IN  IF p > i /\ line[p - 1] \in LETTERS \cup DIGIT_CHARS
        THEN Prefixed(Least({k \in i..(p - 1) :
                                \A m \in k..(p - 1) : line[m] \in LETTERS \cup DIGIT_CHARS}))
        ELSE p

\* the token of the string with its quotes at p and e; a prefix other than f
\* makes it a token the parser of the model does not read
StringTok(line, row, i, p, e) ==
    LET Token(start) ==
            IF start < p /\ Lowered(SubSeq(line, start, p - 1)) \notin FSTRING_PREFIXES
            THEN Tok("PREFIXED", SubSeq(line, start, e), row, start - 1, e)
            ELSE StrTok(SubSeq(line, p + 1, e - 1), row, start - 1, e, start < p)
    IN  Token(PrefixStart(line, i, p))

\* the number that starts at k is one the model does not read
BadNumber(line, k) ==
    LET Bad(j) ==
            \/ (j <= Len(line) /\ line[j] \in LETTERS \cup {"."})
            \/ (line[k] = "0" /\ j > k + 1)
    IN  line[k] \in DIGIT_CHARS /\ Bad(SpanEnd(line, DIGIT_CHARS, k))

\* the word or the number that starts at k
RunTok(line, row, k) ==
    LET Token(t, j) == Tok(t, SubSeq(line, k, j - 1), row, k - 1, j - 1)
    IN  IF line[k] \in LETTERS
        THEN Token("NAME", SpanEnd(line, LETTERS \cup DIGIT_CHARS, k))
        ELSE Token("NUMBER", SpanEnd(line, DIGIT_CHARS, k))

\* the tokens in the order of their columns
ByColumn(toks) ==
    [n \in 1..Cardinality(toks) |->
        CHOOSE t \in toks : Cardinality({u \in toks : u.col < t.col}) = n - 1]

\* the tokens of one line from position i on
LexLine(line, row, i) ==
    LET Spans(strings) == strings.spans
        \* the last position before the string that is bad
        Limit(strings) ==
            IF strings.bad = <<>> THEN Len(line) ELSE strings.bad[1].at - 1
        Runs(strings) ==
            {k \in i..Limit(strings) : RunStart(line, Spans(strings), i, k)}
        Prefixes(strings) ==
            {PrefixStart(line, i, Spans(strings)[s].p) : s \in 1..Len(Spans(strings))}
        Others(strings) ==
            {k \in i..Limit(strings) :
                /\ ~InString(Spans(strings), k)
                /\ line[k] \notin LETTERS \cup DIGIT_CHARS \cup {" "}}
        Tokens(strings) ==
            {StringTok(line, row, i, Spans(strings)[s].p, Spans(strings)[s].e) :
                s \in 1..Len(Spans(strings))}
            \cup {RunTok(line, row, k) : k \in Runs(strings) \ Prefixes(strings)}
            \cup {Tok(IF line[k] \in PUNCT THEN "OP" ELSE "UNKNOWN", <<line[k]>>,
                      row, k - 1, k) : k \in Others(strings)}
        Lexed(strings) ==
            IF \E k \in Runs(strings) : BadNumber(line, k) THEN UNMODELLED
            ELSE IF strings.bad # <<>> THEN strings.bad[1].res
            ELSE LexOk(ByColumn(Tokens(strings)))
    IN  Lexed(StringSpans(line, i))

IsOp(tok, c) == tok.t = "OP" /\ tok.v = <<c>>
IsKw(tok, w) == tok.t = "NAME" /\ tok.v = w

\* how many of the tokens are the bracket c
Brackets(toks, c) == Cardinality({i \in 1..Len(toks) : IsOp(toks[i], c)})

RECURSIVE LexRows(_, _, _)
\* the tokens of the rows from row on, depth brackets being open; a row that
\* ends outside brackets ends a statement
LexRows(lines, row, depth) ==
    IF row > Len(lines) THEN (IF depth > 0 THEN SYNTAX_ERROR ELSE LexOk(<<>>))
    ELSE LET eol == Tok("NEWLINE", <<>>, row, Len(lines[row]), Len(lines[row]))
             Joined(r, d, rest) ==
                 IF rest.st # "ok" THEN rest
                 ELSE LexOk(r.toks \o (IF d = 0 THEN <<eol>> ELSE <<>>) \o rest.toks)
             Balanced(r, d) ==
                 IF d < 0 THEN SYNTAX_ERROR ELSE Joined(r, d, LexRows(lines, row + 1, d))
             Row(r) ==
                 IF r.st # "ok" THEN r
                 ELSE IF r.toks = <<>> THEN LexRows(lines, row + 1, depth)
                 ELSE IF depth = 0 /\ r.toks[1].col > 0
                      THEN SYNTAX_ERROR   \* unexpected indent
                 ELSE Balanced(r, depth + Brackets(r.toks, "(") - Brackets(r.toks, ")"))
         IN  Row(LexLine(lines[row], row, 1))

\* a parsed node: the node and the index of the first token after it
Parsed(node, i) == [st |-> "ok", node |-> node, i |-> i]

END_TOKEN == Tok("END", <<>>, 0, 0, 0)
TokAt(toks, i) == IF i <= Len(toks) THEN toks[i] ELSE END_TOKEN

\* Located { location, end_location, node }
Loc(node, row, col, erow, ecol) ==
    node @@ [row |-> row, col |-> col, erow |-> erow, ecol |-> ecol]

RECURSIVE ParseOr(_, _)
RECURSIVE OrRest(_, _, _)
RECURSIVE ModRest(_, _, _)
RECURSIVE ParseTrailers(_, _, _)
RECURSIVE ParseArgs(_, _, _, _)
RECURSIVE FValues(_, _, _)
RECURSIVE StringValues(_, _, _)

RECURSIVE PointEnd(_, _)
\* where the expression of an interpolation point read from position i ends:
\* the first `:`, `}`, `{` or `!` outside the string literals of the
\* expression, a quote that opens a literal that does not end, or 0
PointEnd(body, i) ==
    LET Past(e, c) == IF c = 0 THEN e ELSE PointEnd(body, c + 1)
        Skip(e) ==
            IF e # 0 /\ body[e] \in QUOTE_CHARS
            THEN Past(e, Find(body, {body[e]}, e + 1))
            ELSE e
    IN  Skip(Find(body, {":", "}", "{", "!", "'", "\""}, i))

\* the interpolation point of an f-string body that opens at position i
FPoint(body, i, lit) ==
    LET flush == IF lit = <<>> THEN <<>> ELSE <<Constant(CStr(lit))>>
        Point(e, spec, r, rest) ==
            IF rest.st # "ok" THEN rest
            ELSE [st |-> "ok",
                  vals |-> flush
                           \o <<FormattedValue(r.node,
                                  IF body[e] = ":"
                                  THEN Some(JoinedStr(<<Constant(CStr(spec))>>))
                                  ELSE None)>>
                           \o rest.vals]
        Expression(e, close, spec, lx, r) ==
            IF r.st # "ok" THEN r
            ELSE IF r.i # Len(lx.toks) + 1 THEN Unexpected(lx.toks[r.i])
            ELSE Point(e, spec, r, FValues(body, close + 1, <<>>))
        Tokens(e, close, spec, lx) ==
            IF lx.st # "ok" THEN lx
            ELSE IF lx.toks = <<>> THEN SYNTAX_ERROR
            ELSE Expression(e, close, spec, lx, ParseOr(lx.toks, 1))
        FormatSpec(e, close, spec) ==
            IF body[e] = ":" /\ (spec = <<>> \/ Find(spec, {"{", "!", "'", "\""}, 1) # 0)
            THEN UNMODELLED
            ELSE Tokens(e, close, spec, LexLine(SubSeq(body, i + 1, e - 1), 0, 1))
        Closed(e, close) ==
            IF e = 0 \/ close = 0 THEN SYNTAX_ERROR
            ELSE IF body[e] \notin {":", "}"} THEN UNMODELLED
            ELSE FormatSpec(e, close,
                            IF body[e] = ":" THEN SubSeq(body, e + 1, close - 1)
                            ELSE <<>>)
        Opened(e) == Closed(e, IF e = 0 THEN 0 ELSE Find(body, {"}"}, e))
    IN  Opened(PointEnd(body, i + 1))

\* the values of an f-string body from position i on, lit the literal text read
FValues(body, i, lit) ==
    IF i > Len(body)
    THEN [st |-> "ok", vals |-> IF lit = <<>> THEN <<>> ELSE <<Constant(CStr(lit))>>]
    ELSE CASE body[i] \in {"{", "}"} /\ i < Len(body) /\ body[i + 1] = body[i] ->
                FValues(body, i + 2, Append(lit, body[i]))
           [] body[i] = "{" -> FPoint(body, i, lit)
           [] body[i] = "}" -> SYNTAX_ERROR
           [] OTHER -> FValues(body, i + 1, Append(lit, body[i]))

\* the values of the adjacent string tokens i..j
StringValues(toks, i, j) ==
    IF i > j THEN [st |-> "ok", vals |-> <<>>]
    ELSE LET Concat(v, rest) ==
                 IF rest.st # "ok" THEN rest
                 ELSE [st |-> "ok", vals |-> v.vals \o rest.vals]
             Values(v) ==
                 IF v.st # "ok" THEN v ELSE Concat(v, StringValues(toks, i + 1, j))
         IN  Values(IF toks[i].f THEN FValues(toks[i].v, 1, <<>>)
                    ELSE [st |-> "ok", vals |-> <<Constant(CStr(toks[i].v))>>])

\* adjacent string literals: one Constant, or one JoinedStr if any is an f-string
ParseStrings(toks, i) ==
    LET Node(n, vs) ==
            IF \E k \in i..n : toks[k].f THEN JoinedStr(vs.vals)
            ELSE Constant(CStr(Join([k \in 1..Len(vs.vals) |-> vs.vals[k].value.text],
                                    <<>>)))
        Strings(n, vs) ==
            IF vs.st # "ok" THEN vs
            ELSE Parsed(Loc(Node(n, vs), toks[i].row, toks[i].col, toks[n].row,
                            toks[n].ecol),
                        n + 1)
        UpTo(n) == Strings(n, StringValues(toks, i, n))
    IN  UpTo(CHOOSE n \in i..Len(toks) :
                /\ \A k \in i..n : toks[k].t = "STRING"
                /\ TokAt(toks, n + 1).t # "STRING")

ParseAtom(toks, i) ==
    LET Atom(t) ==
            CASE t.t = "NAME" ->
                    IF t.v = OR \/ t.v \in KEYWORDS THEN Unexpected(t)
                    ELSE Parsed(Loc(Name(t.v), t.row, t.col, t.row, t.ecol), i + 1)
              [] t.t = "NUMBER" ->
                    Parsed(Loc(Constant(CInt(t.v)), t.row, t.col, t.row, t.ecol), i + 1)
              [] t.t = "STRING" -> ParseStrings(toks, i)
              [] OTHER -> Unexpected(t)   \* `(` opens a parenthesised expression or a tuple
    IN  Atom(TokAt(toks, i))

\* atom trailer*: the calls and attributes taken on node
ParseTrailers(toks, node, i) ==
    LET Called(a) ==
            IF a.st # "ok" THEN a
            ELSE ParseTrailers(toks,
                    Loc(Call(node, a.args, a.keywords), node.row, node.col,
                        toks[a.i - 1].row, toks[a.i - 1].ecol),
                    a.i)
        Dotted(n) ==
            IF n.t # "NAME" \/ n.v = OR \/ n.v \in KEYWORDS THEN SYNTAX_ERROR
            ELSE ParseTrailers(toks,
                    Loc(Attribute(node, n.v), node.row, node.col, n.row, n.ecol),
                    i + 2)
        Trailer(t) ==
            CASE IsOp(t, "(") -> Called(ParseArgs(toks, i + 1, <<>>, <<>>))
              [] IsOp(t, ".") -> Dotted(TokAt(toks, i + 1))
              [] OTHER -> Parsed(node, i)
    IN  Trailer(TokAt(toks, i))

ParseAtomExpr(toks, i) ==
    LET Trailers(a) == IF a.st # "ok" THEN a ELSE ParseTrailers(toks, a.node, a.i)
    IN  Trailers(ParseAtom(toks, i))

\* the arguments of a call up to its closing bracket
ParseArgs(toks, i, args, keywords) ==
    LET Accept(t, iskw, r, sep) ==
            LET next == IF IsOp(sep, ",") THEN r.i + 1 ELSE r.i IN
            IF ~IsOp(sep, ",") /\ ~IsOp(sep, ")") THEN Unexpected(sep)
            ELSE IF iskw
                 THEN IF \E k \in 1..Len(keywords) : keywords[k].arg = t.v
                      THEN SYNTAX_ERROR
                      ELSE ParseArgs(toks, next, args,
                                     Append(keywords, Keyword(t.v, r.node)))
                 ELSE IF keywords # <<>> THEN SYNTAX_ERROR
                      ELSE ParseArgs(toks, next, Append(args, r.node), keywords)
        Value(t, iskw, r) ==
            IF r.st # "ok" THEN r ELSE Accept(t, iskw, r, TokAt(toks, r.i))
        Argument(t, iskw) == Value(t, iskw, ParseOr(toks, IF iskw THEN i + 2 ELSE i))
        Arguments(t) ==
            IF IsOp(t, ")")
            THEN [st |-> "ok", args |-> args, keywords |-> keywords, i |-> i + 1]
            ELSE Argument(t, t.t = "NAME" /\ IsOp(TokAt(toks, i + 1), "="))
    IN  Arguments(TokAt(toks, i))

\* the operands of `%` after left
ModRest(toks, i, left) ==
    IF IsOp(TokAt(toks, i), "%")
    THEN LET Right(r) ==
                 IF r.st # "ok" THEN r
                 ELSE ModRest(toks, r.i,
                              Loc(BinOp(left, "Mod", r.node), left.row, left.col,
                                  r.node.erow, r.node.ecol))
         IN  Right(ParseAtomExpr(toks, i + 1))
    ELSE Parsed(left, i)

ParseTerm(toks, i) ==
    LET Terms(a) == IF a.st # "ok" THEN a ELSE ModRest(toks, a.i, a.node)
    IN  Terms(ParseAtomExpr(toks, i))

\* the operands of `or` after the ones in acc
OrRest(toks, i, acc) ==
    IF IsKw(TokAt(toks, i), OR)
    THEN LET Operand(r) ==
                 IF r.st # "ok" THEN r ELSE OrRest(toks, r.i, Append(acc, r.node))
         IN  Operand(ParseTerm(toks, i + 1))
    ELSE IF Len(acc) = 1 THEN Parsed(acc[1], i)
    ELSE Parsed(Loc(BoolOp(acc), acc[1].row, acc[1].col,
                    acc[Len(acc)].erow, acc[Len(acc)].ecol), i)

ParseOr(toks, i) ==
    LET Disjuncts(r) == IF r.st # "ok" THEN r ELSE OrRest(toks, r.i, <<r.node>>)
    IN  Disjuncts(ParseTerm(toks, i))

RECURSIVE Statements(_, _, _)
\* the statements from token i on: StmtKind::Expr { value }
Statements(toks, i, acc) ==
    IF i > Len(toks) THEN [st |-> "ok", body |-> acc]
    ELSE LET Statement(r) ==
                 IF r.st # "ok" THEN r
                 ELSE IF TokAt(toks, r.i).t = "NEWLINE"
                      THEN Statements(toks, r.i + 1, Append(acc, r.node))
                 ELSE Unexpected(TokAt(toks, r.i))   \* `=` makes an assignment
         IN  Statement(ParseOr(toks, i))

\* Result<Suite>: the expression of every statement of the file
parse_program(lines) ==
    LET Suite(lx) == IF lx.st # "ok" THEN lx ELSE Statements(lx.toks, 1, <<>>)
    IN  Suite(LexRows(lines, 1, 0))

(***************************************************************************)
(* cli.rs: log levels and quote inference.                                 *)
(***************************************************************************)

\* enum LogLevel, by its derived order
Debug == 1
Info == 2
Warning == 3
Error == 4
Exception == 5
Critical == 6
LogLevels == {Debug, Info, Warning, Error, Exception, Critical}

\* the table read without regard to letter case
maybe_from_str_any_case(s) ==
    CASE Lowered(s) = <<"d", "e", "b", "u", "g">> -> Some(Debug)
      [] Lowered(s) = <<"i", "n", "f", "o">> -> Some(Info)
      [] Lowered(s) = <<"w", "a", "r", "n">> -> Some(Warning)
      [] Lowered(s) = <<"w", "a", "r", "n", "i", "n", "g">> -> Some(Warning)
      [] Lowered(s) = <<"e", "r", "r", "o", "r">> -> Some(Error)
      [] Lowered(s) = <<"e", "x", "c", "e", "p", "t", "i", "o", "n">> -> Some(Exception)
      [] Lowered(s) = <<"c", "r", "i", "t", "i", "c", "a", "l">> -> Some(Critical)
      [] OTHER -> None

maybe_from_str(s) ==
    CASE s = <<"d", "e", "b", "u", "g">> -> Some(Debug)
      [] s = <<"i", "n", "f", "o">> -> Some(Info)
      [] s = <<"w", "a", "r", "n">> -> Some(Warning)
      [] s = <<"w", "a", "r", "n", "i", "n", "g">> -> Some(Warning)
      [] s = <<"e", "r", "r", "o", "r">> -> Some(Error)
      [] s = <<"e", "x", "c", "e", "p", "t", "i", "o", "n">> -> Some(Exception)
      [] s = <<"c", "r", "i", "t", "i", "c", "a", "l">> -> Some(Critical)
      [] OTHER -> None

\* Result<char>, or the panic of unwrap: [st |-> "Ok", c], [st |-> "Err"], [st |-> "Panic"]
get_char(string, col_offset) ==
    IF col_offset >= Len(string) THEN [st |-> "Err"]
    ELSE LET c == string[col_offset + 1] IN
         CASE c \in {"'", "\""} -> [st |-> "Ok", c |-> c]
           [] c = "f" ->
                IF col_offset + 1 >= Len(string)
                THEN [st |-> "Panic", msg |-> <<"u", "n", "w", "r", "a", "p">>]
                ELSE [st |-> "Ok", c |-> string[col_offset + 2]]
           [] OTHER -> [st |-> "Err"]

\* content is THREAD_LOCAL_STATE's, split in lines
get_quotes(content, lineno, col_offset) ==
    IF lineno - 1 \notin 0..(Len(content) - 1)
    THEN [st |-> "Panic", msg |-> <<"i", "n", "d", "e", "x">>]
    ELSE get_char(content[lineno], col_offset)

(***************************************************************************)
(* visitor.rs: the classifier.  The visitor is its list of changes, or the *)
(* panic that ended the walk.                                              *)
(***************************************************************************)

BLACKLISTED_NAMES == {<<"w", "a", "r", "n", "i", "n", "g", "s">>,
                      <<"m", "e", "s", "s", "a", "g", "e", "s">>}

FORMAT == <<"f", "o", "r", "m", "a", "t">>

Change(expr, content, vars, quote) ==
    [lineno |-> expr.row, col_offset |-> expr.col,
     end_lineno |-> expr.erow, end_col_offset |-> expr.ecol,
     new_string_content |-> content, new_string_variables |-> vars, quote |-> quote]

Visitor(changes) == [st |-> "Ok", changes |-> changes]
Panicked(msg) == [st |-> "Panic", msg |-> msg]

\* fix_fstring as a conversion
FstringConversion(values, quote) ==
    LET Flattened(r) ==
            IF r.some THEN [st |-> "Ok", content |-> r.v.content, vars |-> r.v.vars]
            ELSE [st |-> "Err"]
    IN  Flattened(fix_fstring(values, quote))

\* the closure handed to capture_changes: fix_fstring on the values, or
\* fix_format_call on the func, args and keywords of the str.format() call
conversion_fn(closure, quote) ==
    IF closure.form = "fstring" THEN FstringConversion(closure.values, quote)
    ELSE fix_format_call(closure.func, closure.args, closure.keywords, quote)

capture_changes(content, v, expr, closure) ==
    LET Captured(quote, c) ==
            CASE c.st = "Panic" -> Panicked(c.msg)
              [] c.st = "Ok" /\ c.content # <<>> ->
                    Visitor(Append(v.changes, Change(expr, c.content, c.vars, quote.c)))
              [] OTHER -> v
        Quoted(quote) ==
            CASE quote.st = "Panic" -> Panicked(quote.msg)
              [] quote.st = "Err" -> v
              [] OTHER -> Captured(quote, conversion_fn(closure, quote.c))
    IN  Quoted(get_quotes(content, expr.row, expr.col))

handle_joinedstr(content, v, expr, values) ==
    capture_changes(content, v, expr, [form |-> "fstring", values |-> values])

handle_str_format_call(content, v, first_value, func, args, keywords) ==
    capture_changes(content, v, first_value,
                    [form |-> "format", func |-> func, args |-> args,
                     keywords |-> keywords])

RECURSIVE JoinedStrArgs(_, _, _, _)
\* the loop of handle_call over the arguments, once the first is an f-string
JoinedStrArgs(content, v, args, values) ==
    IF args = <<>> \/ v.st = "Panic" THEN v
    ELSE JoinedStrArgs(content,
            IF Head(args).kind = "JoinedStr"
            THEN handle_joinedstr(content, v, Head(args), values)
            ELSE v,
            Tail(args), values)

\* (mutant) the call is handled whatever its receiver
NotBlacklisted(value) == FALSE

\* the receiver of the call is a bare name of the blacklist
Blacklisted(value) == value.kind = "Name" /\ value.id \in BLACKLISTED_NAMES

\* (mutant) the last argument decides instead of the first
last_argument(args) == args[Len(args)]

\* `args.get(0)`, on a call that has arguments
first_argument(args) == args[1]

\* `SETTINGS.log_level > log_level`
below_threshold(setting, level) == setting > level

handle_call(content, log_level, v, func, args) ==
    IF func.kind # "Attribute" THEN v
    ELSE LET level == maybe_from_str(func.attr) IN
         IF ~level.some THEN v
         ELSE IF below_threshold(log_level, level.v) THEN v
         ELSE IF Blacklisted(func.value) THEN v
         ELSE IF args = <<>> THEN v
         ELSE LET first_value == first_argument(args) IN
              CASE first_value.kind = "JoinedStr" ->
                     JoinedStrArgs(content, v, args, first_value.values)
                [] first_value.kind = "Call" ->
                     IF first_value.func.kind = "Attribute"
                        /\ first_value.func.attr = FORMAT
                     THEN handle_str_format_call(content, v, first_value,
                              first_value.func, first_value.args, first_value.keywords)
                     ELSE v
                [] OTHER -> v

RECURSIVE visit_expr(_, _, _, _)
RECURSIVE VisitValues(_, _, _, _)

VisitValues(content, log_level, v, values) ==
    IF values = <<>> \/ v.st = "Panic" THEN v
    ELSE VisitValues(content, log_level,
                     visit_expr(content, log_level, v, Head(values)), Tail(values))

visit_expr(content, log_level, v, expr) ==
    CASE expr.kind = "Call" -> handle_call(content, log_level, v, expr.func, expr.args)
      [] expr.kind = "BoolOp" -> VisitValues(content, log_level, v, expr.values)
      [] OTHER -> v

(***************************************************************************)
(* fix_file.rs: change_content, one change of its loop at a time.  The     *)
(* splice state is the lines, popped_rows, or the panic of an index or a   *)
(* range out of bounds.                                                    *)
(***************************************************************************)

new_logger(change) ==
    <<change.quote>> \o change.new_string_content \o <<change.quote>> \o COMMA
    \o Join(change.new_string_variables, COMMA)

Spliced(vec_content, popped_rows) ==
    [st |-> "Ok", vec_content |-> vec_content, popped_rows |-> popped_rows]

OUT_OF_RANGE == <<"r", "a", "n", "g", "e">>

\* (mutant) the row of a change is not translated by the rows removed so far
row_index_untranslated(change, popped_rows) == change.lineno - 1

\* `change.lineno - 1 - popped_rows`: the index of the line a change is written on
row_index(change, popped_rows) == change.lineno - 1 - popped_rows

\* (mutant) the range of the rows to remove takes one row more
drain_range_longer(change, popped_rows) ==
    [start |-> change.lineno - popped_rows, end |-> change.end_lineno - popped_rows + 1]

\* `change.lineno - popped_rows..change.end_lineno - popped_rows`
drain_range(change, popped_rows) ==
    [start |-> change.lineno - popped_rows, end |-> change.end_lineno - popped_rows]

\* (mutant) the comma is never added
without_trailing_comma(removed_lines, text) == text

\* "Add trailing comma if needed": the last removed line ends with a comma
with_trailing_comma(removed_lines, text) ==
    IF /\ removed_lines # <<>>
       /\ removed_lines[Len(removed_lines)] # <<>>
       /\ removed_lines[Len(removed_lines)][Len(removed_lines[Len(removed_lines)])] = ","
    THEN Append(text, ",")
    ELSE text

\* the body of `for change in &changes`
apply_change(vec_content, popped_rows, change) ==
    LET idx == row_index(change, popped_rows) IN
    IF change.lineno = change.end_lineno
    THEN IF idx < 0 \/ idx >= Len(vec_content) THEN Panicked(OUT_OF_RANGE)
         ELSE IF \/ change.col_offset > change.end_col_offset
                 \/ change.end_col_offset > Len(vec_content[idx + 1])
              THEN Panicked(OUT_OF_RANGE)
         ELSE Spliced([vec_content EXCEPT ![idx + 1] =
                          replace_range(@, change.col_offset, change.end_col_offset,
                                        new_logger(change))],
                      popped_rows)
    ELSE LET range == drain_range(change, popped_rows)
             removed_lines == SubSeq(vec_content, range.start + 1, range.end)
             kept == SubSeq(vec_content, 1, range.start)
                     \o SubSeq(vec_content, range.end + 1, Len(vec_content))
             text == with_trailing_comma(removed_lines, new_logger(change))
         IN  IF range.start < 0 \/ range.start > range.end
                \/ range.end > Len(vec_content)
             THEN Panicked(OUT_OF_RANGE)
             ELSE IF idx < 0 \/ idx >= Len(kept) THEN Panicked(OUT_OF_RANGE)
             ELSE IF change.col_offset > Len(kept[idx + 1]) THEN Panicked(OUT_OF_RANGE)
             ELSE Spliced([kept EXCEPT ![idx + 1] =
                              replace_range(@, change.col_offset, Len(@), text)],
                          popped_rows + (change.end_lineno - change.lineno))

\* (mutant) the flag is set whatever the list of changes
always_changed(changes) == TRUE

\* `!changes.is_empty()`
changed(changes) == changes # <<>>

(***************************************************************************)
(* State.                                                                  *)
(*   site            the call site handed to a template builder            *)
(*   conv            what the template builder made of it                  *)
(*   log_level       SETTINGS.log_level                                    *)
(*   content         THREAD_LOCAL_STATE.content: the lines of the file     *)
(*   run             1 for the run on the file as given, 2 for the run on  *)
(*                   the output of the first                               *)
(*   pc              the function fix_file is in                           *)
(*   program         what parse_program returned                           *)
(*   visitor         the LoggerVisitor after the walk                      *)
(*   vec_content, popped_rows, next_change   the locals of change_content  *)
(*   content_changed the flag change_content returned                      *)
(***************************************************************************)
VARIABLES site, conv, log_level, content, run, pc, program, visitor,
          vec_content, popped_rows, next_change, content_changed

file_vars == <<log_level, content, run, pc, program, visitor, vec_content,
               popped_rows, next_change, content_changed>>
vars == <<site, conv, file_vars>>

(***************************************************************************)
(* The call sites of the template builders.                                *)
(***************************************************************************)

\* bounds of the call sites
MaxSlots == 3
MaxPos == 2
MaxValues == 2

SeqsUpTo(S, n) == UNION {[1..k -> S] : k \in 0..n}

SPEC_TEXT == <<"0", "2", "f">>
X == <<"x">>
Y == <<"y">>

\* a placeholder of a str.format() template: {}, {:02f}, {x}, {x:02f}, {y}
Slot(name, spec) == [name |-> name, spec |-> spec]
SlotKinds ==
    {Slot(<<>>, <<>>), Slot(<<>>, SPEC_TEXT), Slot(X, <<>>), Slot(X, SPEC_TEXT),
     Slot(Y, <<>>)}

SlotText(s) ==
    <<"{">> \o s.name \o (IF s.spec = <<>> THEN <<>> ELSE <<":">> \o s.spec) \o <<"}">>

\* literal text between two placeholders, and the optional literal prefix
SEPARATOR == <<" ", "+", " ">>
PS_PREFIX == <<"%", "s", " ">>

\* the text of a template: prefix, then the placeholders as rendered by slot
TemplateText(prefix, slots, slot(_)) ==
    prefix \o Join([i \in 1..Len(slots) |-> slot(slots[i])], SEPARATOR)

ToPS(s) == PS

DIGITS == <<"1", "2", "3", "4", "5", "6", "7", "8", "9">>
FOO == <<"f", "o", "o">>

\* the i-th positional argument of a str.format() call of the model
PosArg(i) == IF i = 2 THEN Name(FOO) ELSE Constant(CInt(<<DIGITS[i]>>))

\* the keyword lists: x and y, each at most once, in either order, each value a
\* constant or a variable
KwValues(k) ==
    IF k = X THEN {Constant(CInt(<<"5">>)), Name(<<"v">>)}
    ELSE {Constant(CInt(<<"4">>)), Name(<<"w">>)}
KeywordLists ==
    {kws \in SeqsUpTo({Keyword(k, v) : k \in {X, Y}, v \in KwValues(X) \cup KwValues(Y)}, 2) :
        /\ \A i \in 1..Len(kws) : kws[i].value \in KwValues(kws[i].arg)
        /\ \A i, j \in 1..Len(kws) : i # j => kws[i].arg # kws[j].arg}

FormatSites ==
    {[form |-> "format", prefix |-> p, slots |-> ss, npos |-> n, keywords |-> kws,
      quote |-> "'"] :
        p \in {<<>>, PS_PREFIX}, ss \in SeqsUpTo(SlotKinds, MaxSlots), n \in 0..MaxPos,
        kws \in KeywordLists}

\* the syntax tree of a str.format() site: '<template>'.format(<args>, <keywords>)
FormatFunc(s) ==
    Attribute(Constant(CStr(TemplateText(s.prefix, s.slots, SlotText))),
              <<"f", "o", "r", "m", "a", "t">>)
FormatArgs(s) == [i \in 1..s.npos |-> PosArg(i)]

\* the expressions of an interpolation point of an f-string of the model
ExprPool ==
    {Name(X), Constant(CInt(<<"1">>)),
     Attribute(Attribute(Name(<<"a">>), <<"b">>), <<"c">>),
     Call(Name(<<"l", "e", "n">>), <<Name(<<"b", "a", "r">>)>>, <<>>),
     BinOp(Name(FOO), "Add", Constant(CInt(<<"1">>))),
     JoinedStr(<<>>), OtherExpr}

\* the constants of an interpolation point: one of every kind of literal
ConstantPool ==
    {CNone, CBool(TRUE), CBool(FALSE), CStr(<<"i", "d">>), CInt(<<"1">>), CEllipsis,
     CTuple(<<CInt(<<"1">>), CNone>>), CTuple(<<CBool(TRUE), CStr(<<"i", "d">>)>>)}

ERRORS == <<"e", "r", "r", "o", "r", "s">>
\* for e in errors
ForEInErrors == <<Comprehension(Name(<<"e">>), Name(ERRORS))>>
\* str(e)
StrOfE == Call(Name(<<"s", "t", "r">>), <<Name(<<"e">>)>>, <<>>)

\* literals inside calls and comprehensions
NestedLiterals ==
    {\* [1 for e in errors], ['id' for e in errors], [str(e) for e in errors]
     ListComp(Constant(CInt(<<"1">>)), ForEInErrors),
     ListComp(Constant(CStr(<<"i", "d">>)), ForEInErrors),
     ListComp(StrOfE, ForEInErrors),
     \* [e for e in 1], (e for e in errors)
     ListComp(Name(<<"e">>), <<Comprehension(Name(<<"e">>), Constant(CInt(<<"1">>)))>>),
     GeneratorExp(Name(<<"e">>), ForEInErrors),
     \* {'id': str(e) for e in errors}, {1: e for e in errors}
     DictComp(Constant(CStr(<<"i", "d">>)), StrOfE, ForEInErrors),
     DictComp(Constant(CInt(<<"1">>)), Name(<<"e">>), ForEInErrors),
     \* ', '.join(errors), (1).real()
     Call(Attribute(Constant(CStr(<<",", " ">>)), <<"j", "o", "i", "n">>),
          <<Name(ERRORS)>>, <<>>),
     Call(Attribute(Constant(CInt(<<"1">>)), <<"r", "e", "a", "l">>), <<>>, <<>>),
     \* foo('id'), foo(1, x=2)
     Call(Name(FOO), <<Constant(CStr(<<"i", "d">>))>>, <<>>),
     Call(Name(FOO), <<Constant(CInt(<<"1">>))>>,
          <<Keyword(X, Constant(CInt(<<"2">>)))>>),
     \* ret['id']
     Subscript(Name(<<"r", "e", "t">>), Constant(CStr(<<"i", "d">>)))}

\* the expressions of the f-strings of one interpolation point
SinglePoints == {Constant(c) : c \in ConstantPool} \cup NestedLiterals

\* the expression trees of names, constants, attribute access and binary
\* operations: a, 1, a.b; one operation on two of these; and an operation or
\* an attribute taken on such an operation
TreeLeaves == {Name(<<"a">>), Constant(CInt(<<"1">>)), Attribute(Name(<<"a">>), <<"b">>)}
LeafOperations == {BinOp(l, op, r) : l \in TreeLeaves, op \in {"Add", "Mult"}, r \in TreeLeaves}
OperatorTrees ==
    TreeLeaves \cup LeafOperations
    \cup {BinOp(l, op, r) : l \in LeafOperations, op \in {"Add", "Mult"}, r \in TreeLeaves}
    \cup {BinOp(l, op, r) : l \in TreeLeaves, op \in {"Add", "Mult"}, r \in LeafOperations}
    \cup {Attribute(v, <<"c">>) : v \in LeafOperations}

FormatSpecs == {None, Some(JoinedStr(<<Constant(CStr(SPEC_TEXT))>>))}

FstringValues ==
    {Constant(CStr(<<"a", " ">>)), Constant(CStr(PS))}
    \cup {FormattedValue(e, fs) : e \in ExprPool, fs \in FormatSpecs}

Quotes == {"'", "\""}

FstringSites ==
    {[form |-> "fstring", values |-> vs, quote |-> q] :
        vs \in SeqsUpTo(FstringValues, MaxValues)
                \cup {<<FormattedValue(e, None)>> : e \in SinglePoints \cup OperatorTrees},
        q \in Quotes}

Pending == [st |-> "Pending"]

\* what visitor.rs's conversion_fn returns for the site:
\* fix_fstring, or fix_format_call(..).ok().flatten()
Convert(s) ==
    IF s.form = "fstring"
    THEN FstringConversion(s.values, s.quote)
    ELSE fix_format_call(FormatFunc(s), FormatArgs(s), s.keywords, s.quote)

\* no file is being fixed
NoFile ==
    /\ log_level = Error
    /\ content = <<>>
    /\ run = 1
    /\ pc = "idle"
    /\ program = [st |-> "ok", body |-> <<>>]
    /\ visitor = Visitor(<<>>)
    /\ vec_content = <<>>
    /\ popped_rows = 0
    /\ next_change = 1
    /\ content_changed = FALSE

BuilderInit ==
    /\ site \in FormatSites \cup FstringSites
    /\ conv = Pending
    /\ NoFile

\* handle_joinedstr: the f-string template builder runs on the site
ConvertFstring ==
    /\ conv = Pending
    /\ site.form = "fstring"
    /\ conv' = Convert(site)
    /\ UNCHANGED <<site, file_vars>>

\* handle_str_format_call: the str.format() template builder runs on the site
ConvertFormat ==
    /\ conv = Pending
    /\ site.form = "format"
    /\ conv' = Convert(site)
    /\ UNCHANGED <<site, file_vars>>

BuilderNext == ConvertFstring \/ ConvertFormat

BuilderSpec == BuilderInit /\ [][BuilderNext]_vars

(***************************************************************************)
(* The files of the model: one logging statement, after some lines the     *)
(* program has nothing to do with.                                         *)
(***************************************************************************)

\* bounds of the files
MaxLead == 1
MaxOperands == 2

LOGGER == <<"l", "o", "g", "g", "e", "r">>
WARNINGS == <<"w", "a", "r", "n", "i", "n", "g", "s">>
MESSAGES == <<"m", "e", "s", "s", "a", "g", "e", "s">>
DEBUG == <<"d", "e", "b", "u", "g">>
ERROR == <<"e", "r", "r", "o", "r">>
\* the level names, and an attribute that is no level
INFO == <<"i", "n", "f", "o">>
WARN == <<"w", "a", "r", "n">>
WARNING == <<"w", "a", "r", "n", "i", "n", "g">>
EXCEPTION == <<"e", "x", "c", "e", "p", "t", "i", "o", "n">>
CRITICAL == <<"c", "r", "i", "t", "i", "c", "a", "l">>
LevelNames == {DEBUG, INFO, WARN, WARNING, ERROR, EXCEPTION, CRITICAL}
LOG == <<"l", "o", "g">>
\* level names in another letter case
UPPER_ERROR == <<"E", "R", "R", "O", "R">>
TITLE_ERROR == <<"E", "r", "r", "o", "r">>
UPPER_DEBUG == <<"D", "E", "B", "U", "G">>
CaseVariants == {UPPER_ERROR, TITLE_ERROR, UPPER_DEBUG}

\* the texts of an argument
F_X == <<"f", "'", "{", "x", "}", "'">>
F_X_DOUBLE == <<"f", "\"", "{", "x", "}", "\"">>
F_X_WIDE == <<"f", "'", "{", "x", ":", ">", "1", "0", "0", "}", "'">>
F_A == <<"f", "'", "a", "'">>
F_Y == <<"f", "'", "{", "y", "}", "'">>
F_Y_DOUBLE == <<"f", "\"", "{", "y", "}", "\"">>
\* a raw f-string
FR_X == <<"f", "r", "'", "{", "x", "}", "'">>
FORMAT_X == <<"'", "{", "}", "'", ".">> \o FORMAT \o <<"(", "x", ")">>
STR_A == <<"'", "a", "'">>
NAME_X == <<"x">>

FirstArgs == {F_X, F_X_DOUBLE, F_X_WIDE, F_A, FORMAT_X, STR_A, NAME_X}
RestArgs == {<<>>, <<<<"b">>>>, <<<<"b">>, <<"c">>>>, <<F_Y>>}

\* <receiver>.<attr>(<args>)
CallText(receiver, attr, args) ==
    receiver \o <<".">> \o attr \o <<"(">> \o Join(args, COMMA) \o <<")">>

\* one call, of every shape, at the level error or debug
ShapeCalls ==
    {CallText(r, l, <<a>> \o rest) :
        r \in {LOGGER, WARNINGS, MESSAGES}, l \in {ERROR, DEBUG},
        a \in FirstArgs, rest \in RestArgs}

\* one call at every level name, f-string or str.format()
LevelCalls ==
    {CallText(LOGGER, l, <<a>>) :
        l \in LevelNames \cup CaseVariants \cup {LOG}, a \in {F_X, FORMAT_X}}

\* the operands of an `or`
Operands ==
    {CallText(LOGGER, ERROR, <<a>> \o rest) :
        a \in {F_X, F_X_WIDE, F_A, FORMAT_X, NAME_X},
        rest \in {<<>>, <<<<"b">>, <<"c">>>>}}
    \cup {CallText(LOGGER, DEBUG, <<F_X>>), CallText(WARNINGS, ERROR, <<F_X>>)}

OrChains ==
    {Join(ops, <<" ", "o", "r", " ">>) :
        ops \in UNION {[1..k -> Operands] : k \in 2..MaxOperands}}

\* an f-string that is no argument of a logging call
StrayFstrings ==
    {F_X, <<"f", "o", "o", "(">> \o F_X \o <<")">>,
     LOGGER \o <<"(">> \o F_X \o <<")">>,
     CallText(LOGGER, ERROR, <<>>)}

\* a call whose f-string goes over two rows, and what follows it on the second
INDENT == <<" ", " ">>
OPENED == LOGGER \o <<".">> \o ERROR \o <<"(">>
MultiLine ==
    {<<OPENED \o F_X, INDENT \o F_A \o tail>> :
        tail \in {<<")">>, <<",", " ", "b", ")">>,
                  <<")", " ", "o", "r", " ">> \o CallText(LOGGER, DEBUG, <<F_Y>>),
                  <<")", " ", "o", "r", " ">> \o CallText(LOGGER, ERROR, <<F_Y>>)}}
    \cup {<<OPENED \o F_X, INDENT \o F_A \o <<",">>, INDENT \o <<"b", ")">>>>,
          <<OPENED, INDENT \o F_X \o <<",">>, <<")">>>>}

FOO_LINE == <<"f", "o", "o">>

\* a logging call in the arguments of another call
NestedCalls ==
    {<<"f", "o", "o", "(">> \o CallText(LOGGER, ERROR, <<F_X>>) \o <<")">>,
     CallText(LOGGER, DEBUG, <<CallText(LOGGER, ERROR, <<F_X>>)>>),
     CallText(LOGGER, ERROR, <<NAME_X, CallText(LOGGER, ERROR, <<F_X>>)>>)}

\* a logging call whose f-string has another prefix than `f`
PrefixedCalls == {CallText(LOGGER, ERROR, <<FR_X>>)}

\* f-strings with an interpolation point the resolver does not read: an
\* f-string inside it, an `or`, and an `or` after a point it reads
F_NESTED == <<"f", "'", "{", "f", "\"", "{", "x", "}", "\"", "}", "'">>
F_OR == <<"f", "'", "{", "x", " ", "o", "r", " ", "y", "}", "'">>
F_X_THEN_OR == <<"f", "'", "{", "x", "}", "{", "x", " ", "o", "r", " ", "y", "}", "'">>
UnresolvedCalls == {CallText(LOGGER, ERROR, <<a>>) : a \in {F_NESTED, F_OR, F_X_THEN_OR}}

\* a logging call whose first argument is .format() taken on a variable: x, f
\* and fmt, with no argument, a positional one, a keyword, or both
FMT == <<"f", "m", "t">>
VariableFormatArgs ==
    {<<>>, <<<<"1">>>>, <<<<"x", "=", "1">>>>, <<<<"x", "=", "v">>>>,
     <<<<"1">>, <<"x", "=", "5">>>>}
VariableFormatCalls ==
    {CallText(LOGGER, ERROR, <<CallText(r, FORMAT, args)>>) :
        r \in {NAME_X, <<"f">>, FMT}, args \in VariableFormatArgs}

\* what follows a statement: a line of no interest, another logging call in
\* the other quotes, on one row or on two, or a call and a line
Followers ==
    {<<FOO_LINE>>, <<CallText(LOGGER, ERROR, <<F_Y_DOUBLE>>)>>,
     <<CallText(LOGGER, ERROR, <<F_Y_DOUBLE>>), FOO_LINE>>,
     <<OPENED \o F_Y_DOUBLE, INDENT \o F_A \o <<")">>, FOO_LINE>>}

\* two statements, or a statement and the line after it
Followed ==
    {st \o fol : st \in MultiLine \cup {<<CallText(LOGGER, ERROR, <<F_X>>)>>}
                        \cup {<<c>> : c \in UnresolvedCalls},
                 fol \in Followers}

\* the files: every statement at the default level, the level calls at every level
Files ==
    {[log_level |-> t, lines |-> [i \in 1..n |-> FOO_LINE] \o st] :
        t \in {Error}, n \in 0..MaxLead,
        st \in {<<c>> : c \in ShapeCalls \cup OrChains \cup StrayFstrings
                              \cup NestedCalls \cup PrefixedCalls
                              \cup UnresolvedCalls \cup VariableFormatCalls}
               \cup MultiLine \cup Followed}
    \cup {[log_level |-> t, lines |-> <<c>>] : t \in LogLevels, c \in LevelCalls}

NoSite == [form |-> "none"]

Init ==
    /\ site = NoSite
    /\ conv = Pending
    /\ \E file \in Files :
          /\ log_level = file.log_level
          /\ content = file.lines
          /\ vec_content = file.lines
    /\ run = 1
    /\ pc = "get_changes"
    /\ program = [st |-> "ok", body |-> <<>>]
    /\ visitor = Visitor(<<>>)
    /\ popped_rows = 0
    /\ next_change = 1
    /\ content_changed = FALSE

RECURSIVE WalkStatements(_, _, _, _)
\* `program.iter().for_each(|stmt| walk_stmt(&mut visitor, stmt))`: walk_stmt
\* calls visit_expr on the expression of an expression statement
WalkStatements(lines, level, v, body) ==
    IF body = <<>> \/ v.st = "Panic" THEN v
    ELSE WalkStatements(lines, level, visit_expr(lines, level, v, Head(body)),
                        Tail(body))

\* the visitor get_changes ends with; a file that does not parse has no changes
get_changes(lines, level, parsed) ==
    IF parsed.st = "ok" THEN WalkStatements(lines, level, Visitor(<<>>), parsed.body)
    ELSE Visitor(<<>>)

\* fix_file: get_changes parses the file and walks it
GetChanges ==
    /\ pc = "get_changes"
    /\ program' = parse_program(content)
    /\ visitor' = get_changes(content, log_level, program')
    /\ pc' = IF visitor'.st = "Panic" THEN "panicked" ELSE "change_content"
    /\ UNCHANGED <<site, conv, log_level, content, run, vec_content, popped_rows,
                   next_change, content_changed>>

\* change_content: the next change of the loop is spliced in
ApplyChange ==
    /\ pc = "change_content"
    /\ next_change <= Len(visitor.changes)
    /\ LET r == apply_change(vec_content, popped_rows, visitor.changes[next_change]) IN
       IF r.st = "Panic"
       THEN /\ pc' = "panicked"
            /\ UNCHANGED <<vec_content, popped_rows, next_change>>
       ELSE /\ vec_content' = r.vec_content
            /\ popped_rows' = r.popped_rows
            /\ next_change' = next_change + 1
            /\ pc' = pc
    /\ UNCHANGED <<site, conv, log_level, content, run, program, visitor,
                   content_changed>>

\* change_content returns (vec_content, !changes.is_empty())
ChangeContentReturn ==
    /\ pc = "change_content"
    /\ next_change > Len(visitor.changes)
    /\ content_changed' = changed(visitor.changes)
    /\ pc' = "done"
    /\ UNCHANGED <<site, conv, log_level, content, run, program, visitor,
                   vec_content, popped_rows, next_change>>

\* the program is run again, on what the first run made of the file
RunAgain ==
    /\ pc = "done"
    /\ run = 1
    /\ run' = 2
    /\ content' = vec_content
    /\ pc' = "get_changes"
    /\ program' = [st |-> "ok", body |-> <<>>]
    /\ visitor' = Visitor(<<>>)
    /\ popped_rows' = 0
    /\ next_change' = 1
    /\ content_changed' = FALSE
    /\ UNCHANGED <<site, conv, log_level, vec_content>>

Next == GetChanges \/ ApplyChange \/ ChangeContentReturn \/ RunAgain

Spec == Init /\ [][Next]_vars

\* the parser of the model covers every file it is given, in both runs
ParserCovers == program.st # "unmodelled"

(***************************************************************************)
(* What a str.format() site means (Python's str.format), to state the laws *)
(* of the template builder against.                                        *)
(***************************************************************************)

\* the source text of an argument of the model's sites: a variable or a number
ArgText(e) == IF e.kind = "Name" THEN e.id ELSE e.value.text

HasKeyword(s, k) == \E i \in 1..Len(s.keywords) : s.keywords[i].arg = k
KeywordValue(s, k) ==
    s.keywords[CHOOSE i \in 1..Len(s.keywords) : s.keywords[i].arg = k].value

\* the bare placeholders among the first i placeholders
BareUpTo(s, i) == {j \in 1..i : s.slots[j].name = <<>>}
BareSlots(s) == BareUpTo(s, Len(s.slots))

\* every named placeholder has its keyword
KeywordsSupplied(s) ==
    \A i \in 1..Len(s.slots) : s.slots[i].name # <<>> => HasKeyword(s, s.slots[i].name)

\* every keyword of the call is referenced by a placeholder
KeywordsUsed(s) ==
    \A i \in 1..Len(s.keywords) :
        \E j \in 1..Len(s.slots) : s.slots[j].name = s.keywords[i].arg

\* every placeholder has exactly one argument to take, every argument a placeholder
WellFormed(s) ==
    KeywordsSupplied(s) /\ KeywordsUsed(s) /\ Cardinality(BareSlots(s)) = s.npos

\* the argument each placeholder occurrence takes, left to right
ExpectedArgs(s) ==
    [i \in 1..Len(s.slots) |->
        IF s.slots[i].name # <<>> THEN ArgText(KeywordValue(s, s.slots[i].name))
        ELSE ArgText(PosArg(Cardinality(BareUpTo(s, i))))]

Converted == conv.st # "Pending"

\* the literal text of the site, every interpolation point replaced by `{`
LiteralText(s) ==
    IF s.form = "format" THEN TemplateText(s.prefix, s.slots, LAMBDA sl : <<"{">>)
    ELSE LET piece(v) == IF v.kind = "Constant" THEN constant_to_string(v.value)
                         ELSE <<"{">>
         IN  Join([i \in 1..Len(s.values) |-> piece(s.values[i])], <<>>)

\* the site without its format specs
StripSpecs(s) ==
    IF s.form = "format"
    THEN [s EXCEPT !.slots = [i \in 1..Len(s.slots) |-> Slot(s.slots[i].name, <<>>)]]
    ELSE [s EXCEPT !.values =
            [i \in 1..Len(s.values) |->
                IF s.values[i].kind = "FormattedValue"
                THEN FormattedValue(s.values[i].value, None)
                ELSE s.values[i]]]

HasSpec(s) ==
    IF s.form = "format" THEN \E i \in 1..Len(s.slots) : s.slots[i].spec # <<>>
    ELSE \E i \in 1..Len(s.values) :
            s.values[i].kind = "FormattedValue" /\ s.values[i].format_spec.some

\* a Change is pushed for the site: the builder returned a non-empty template
Pushed == conv.st = "Ok" /\ conv.content # <<>>

(***************************************************************************)
(* C2 (as stated): for every Change pushed, the number of `%s` in          *)
(* new_string_content equals the length of new_string_variables.           *)
(***************************************************************************)
C2_PlaceholderCountAsStated ==
    Pushed => CountPS(conv.content) = Len(conv.vars)

(***************************************************************************)
(* C2 (amended): for every Change pushed, the number of `%s` in            *)
(* new_string_content equals the length of new_string_variables plus the   *)
(* number of `%s` the literal text of the original string already held.    *)
(***************************************************************************)
C2_PlaceholderCount ==
    Pushed => CountPS(conv.content) = Len(conv.vars) + CountPS(LiteralText(site))

\* a Change whose literal text holds a `%s` beside an interpolation point
C2_Witness ==
    /\ Pushed
    /\ conv.vars # <<>>
    /\ CountPS(LiteralText(site)) > 0

(***************************************************************************)
(* C6: ordering law of str.format(): the arguments follow the left-to-     *)
(* right order of the placeholder occurrences; a named occurrence takes    *)
(* the value of its keyword, the j-th bare occurrence the j-th positional  *)
(* argument, whatever the order the call writes them in.                   *)
(***************************************************************************)
C6_OrderingLaw ==
    (Converted /\ site.form = "format" /\ WellFormed(site)) =>
        /\ conv.st = "Ok"
        /\ conv.content = TemplateText(site.prefix, site.slots, ToPS)
        /\ conv.vars = ExpectedArgs(site)

(***************************************************************************)
(* C7: keyword-repetition law: every occurrence of a keyword's name        *)
(* becomes its own `%s` and holds the keyword's value at its position, so  *)
(* the argument list is as long as the template has occurrences (stated    *)
(* for the calls that pass keywords only, one of them referenced twice).   *)
(***************************************************************************)
C7_KeywordRepetition ==
    (/\ Converted /\ site.form = "format" /\ WellFormed(site)
     /\ site.npos = 0
     /\ \E i, j \in 1..Len(site.slots) : i # j /\ site.slots[i].name = site.slots[j].name) =>
        /\ conv.st = "Ok"
        /\ Len(conv.vars) = Len(site.slots)
        /\ CountPS(conv.content) = Len(site.slots) + CountPS(site.prefix)
        /\ \A i \in 1..Len(site.slots) :
              conv.vars[i] = ArgText(KeywordValue(site, site.slots[i].name))

(***************************************************************************)
(* C8: excess-argument law: more positional arguments than open            *)
(* placeholders is a hard failure whose message holds the text of the      *)
(* first excess argument, and no Change is built.                          *)
(***************************************************************************)
C8_ExcessArgument ==
    (/\ Converted /\ site.form = "format" /\ KeywordsSupplied(site)
     /\ site.npos > Cardinality(BareSlots(site))) =>
        /\ conv.st = "Panic"
        /\ conv.msg = ArgText(PosArg(Cardinality(BareSlots(site)) + 1))

(***************************************************************************)
(* C9: format-spec discard: a placeholder with a format spec is handled as *)
(* the same placeholder without it (only the name matches the keyword),    *)
(* becomes a plain `%s`, and the spec text is in neither the template nor  *)
(* the arguments.                                                          *)
(***************************************************************************)
C9_FormatSpecDiscard ==
    Converted =>
        /\ conv = Convert(StripSpecs(site))
        /\ conv.st = "Ok" =>
              /\ ~Contains(conv.content, SPEC_TEXT)
              /\ \A i \in 1..Len(conv.vars) : ~Contains(conv.vars[i], SPEC_TEXT)
              /\ site.form = "format" =>
                    conv.content = TemplateText(site.prefix, site.slots, ToPS)

\* {x:02f} filled from the keyword x
C9_Witness ==
    /\ conv.st = "Ok"
    /\ site.form = "format"
    /\ \E i \in 1..Len(site.slots) :
          /\ site.slots[i] = Slot(X, SPEC_TEXT)
          /\ HasKeyword(site, X)
          /\ conv.vars[i] = ArgText(KeywordValue(site, X))

(***************************************************************************)
(* What is said of a run over a file: the calls the file holds, the        *)
(* changes made for them, and what the output keeps of them.               *)
(***************************************************************************)

RECURSIVE CallsOf(_)
\* the calls of an expression statement: the statement itself, or the operands
\* of its `or`
CallsOf(expr) ==
    CASE expr.kind = "Call" -> <<expr>>
      [] expr.kind = "BoolOp" ->
            Join([i \in 1..Len(expr.values) |-> CallsOf(expr.values[i])], <<>>)
      [] OTHER -> <<>>

\* the calls of the file of the run
Calls ==
    IF program.st = "ok"
    THEN Join([i \in 1..Len(program.body) |-> CallsOf(program.body[i])], <<>>)
    ELSE <<>>

\* the walk of the run is over, and left a list of changes
Walked == pc \in {"change_content", "done", "panicked"} /\ visitor.st = "Ok"

\* position (r1, c1) is not after (r2, c2)
NotAfter(r1, c1, r2, c2) == r1 < r2 \/ (r1 = r2 /\ c1 <= c2)

\* the change lies in the span of the node
Inside(change, node) ==
    /\ NotAfter(node.row, node.col, change.lineno, change.col_offset)
    /\ NotAfter(change.end_lineno, change.end_col_offset, node.erow, node.ecol)

\* the change is the one for the node
ChangeOf(change, node) ==
    /\ change.lineno = node.row /\ change.col_offset = node.col
    /\ change.end_lineno = node.erow /\ change.end_col_offset = node.ecol

NoChangeIn(call) ==
    \A k \in 1..Len(visitor.changes) : ~Inside(visitor.changes[k], call)

\* the order of the levels: debug < info < warning (= warn) < error < exception
\* < critical
LEVEL_ORDER == <<{DEBUG}, {INFO}, {WARN, WARNING}, {ERROR}, {EXCEPTION}, {CRITICAL}>>
IsLevelName(name) == \E k \in 1..Len(LEVEL_ORDER) : name \in LEVEL_ORDER[k]
RankOf(name) == CHOOSE k \in 1..Len(LEVEL_ORDER) : name \in LEVEL_ORDER[k]

\* <recv>.<level>(...)
LevelCall(call) == call.func.kind = "Attribute" /\ IsLevelName(call.func.attr)

\* the receiver is a bare name of the block-list
BlockListed(call) ==
    /\ call.func.kind = "Attribute"
    /\ call.func.value.kind = "Name"
    /\ call.func.value.id \in {WARNINGS, MESSAGES}

IsFstring(e) == e.kind = "JoinedStr"

\* the kinds of expression of an interpolation point the resolver reads, and
\* the f-strings whose interpolation points are all of these kinds
SUPPORTED_KINDS ==
    {"Name", "Attribute", "Constant", "Call", "BinOp", "Subscript", "ListComp",
     "GeneratorExp", "DictComp"}
PointsResolve(e) ==
    \A i \in 1..Len(e.values) :
        e.values[i].kind = "FormattedValue" => e.values[i].value.kind \in SUPPORTED_KINDS
IsFormatCall(e) == e.kind = "Call" /\ e.func.kind = "Attribute" /\ e.func.attr = FORMAT

\* the text of a call written on one row, as the file of the run has it
CallSource(call) == Sub(content[call.row], call.col, call.ecol)

\* the output holds the text of the call
TextKept(call) ==
    \E r \in 1..Len(vec_content) : Contains(vec_content[r], CallSource(call))

(***************************************************************************)
(* C1: idempotence: the run on the output of a run finds no change,        *)
(* returns changed = false and leaves the text as it is.                   *)
(***************************************************************************)
C1_Idempotence ==
    (run = 2 /\ pc # "get_changes") =>
        /\ visitor = Visitor(<<>>)
        /\ pc # "panicked"
        /\ pc = "done" => (~content_changed /\ vec_content = content)

(***************************************************************************)
(* C3: a call <recv>.<level>(...) whose level is strictly below the        *)
(* threshold gets no Change and its text is in the output as it was; a     *)
(* call at or above the threshold whose first argument is an f-string or a *)
(* str.format() call gets a Change for that argument (stated for the       *)
(* receivers outside the block-list, the f-strings whose interpolation     *)
(* points the resolver reads and .format() taken on a string literal).     *)
(***************************************************************************)
C3_ThresholdFilter ==
    Walked =>
        \A i \in 1..Len(Calls) :
            LET call == Calls[i] IN
            LevelCall(call) =>
                IF RankOf(call.func.attr) < log_level
                THEN /\ NoChangeIn(call)
                     /\ (pc = "done" /\ call.row = call.erow) => TextKept(call)
                ELSE (/\ ~BlockListed(call)
                      /\ call.args # <<>>
                      /\ \/ (IsFstring(call.args[1]) /\ PointsResolve(call.args[1]))
                         \/ (IsFormatCall(call.args[1])
                             /\ call.args[1].func.value.kind = "Constant")) =>
                        \E k \in 1..Len(visitor.changes) :
                            ChangeOf(visitor.changes[k], call.args[1])

(***************************************************************************)
(* C4: a call whose receiver is a bare name of the block-list {warnings,   *)
(* messages} gets no Change, whatever its level name and its first         *)
(* argument.                                                               *)
(***************************************************************************)
C4_BlockList ==
    Walked =>
        \A i \in 1..Len(Calls) : BlockListed(Calls[i]) => NoChangeIn(Calls[i])

\* warnings.error(f'...') at the threshold, walked, and no change made
C4_Witness ==
    /\ Walked /\ run = 1 /\ pc = "done"
    /\ visitor.changes = <<>>
    /\ \E i \in 1..Len(Calls) :
          /\ BlockListed(Calls[i])
          /\ LevelCall(Calls[i])
          /\ RankOf(Calls[i].func.attr) >= log_level
          /\ Calls[i].args # <<>>
          /\ IsFstring(Calls[i].args[1])

(***************************************************************************)
(* C5: only the first positional argument decides: a level-named call      *)
(* whose first argument is neither an f-string nor a call of an attribute  *)
(* `format` gets no Change, whatever its later arguments; and every Change *)
(* is for an argument of a level-named attribute call, so that an f-string *)
(* elsewhere is never rewritten.                                           *)
(***************************************************************************)
C5_FirstArgumentDecides ==
    Walked =>
        /\ \A i \in 1..Len(Calls) :
              (/\ LevelCall(Calls[i])
               /\ Calls[i].args # <<>>
               /\ ~IsFstring(Calls[i].args[1])
               /\ ~IsFormatCall(Calls[i].args[1])) => NoChangeIn(Calls[i])
        /\ \A k \in 1..Len(visitor.changes) :
              \E i \in 1..Len(Calls) :
                  /\ LevelCall(Calls[i])
                  /\ \E a \in 1..Len(Calls[i].args) :
                        ChangeOf(visitor.changes[k], Calls[i].args[a])

\* logger.error(x, f'{y}') at the threshold, walked, and no change made
C5_Witness ==
    /\ Walked /\ run = 1 /\ pc = "done"
    /\ visitor.changes = <<>>
    /\ \E i \in 1..Len(Calls) :
          /\ LevelCall(Calls[i])
          /\ ~BlockListed(Calls[i])
          /\ RankOf(Calls[i].func.attr) >= log_level
          /\ Len(Calls[i].args) > 1
          /\ Calls[i].args[1].kind = "Name"
          /\ IsFstring(Calls[i].args[2])

\* <quote><template><quote>, <arg1>, <arg2>, ... (the separator after the
\* template is written whatever the number of arguments)
Rendered(change) ==
    <<change.quote>> \o change.new_string_content \o <<change.quote>> \o <<",", " ">>
    \o Join(change.new_string_variables, <<",", " ">>)

(***************************************************************************)
(* C10: single-line splice: a Change that starts and ends on one row       *)
(* replaces the columns [col_offset, end_col_offset) of its line by the    *)
(* rendered call; the text before and after the range, every other line    *)
(* and the number of lines stay as they are.                               *)
(***************************************************************************)
C10_SingleLineSplice ==
    [][(/\ pc = "change_content"
        /\ next_change <= Len(visitor.changes)
        /\ visitor.changes[next_change].lineno = visitor.changes[next_change].end_lineno) =>
            LET change == visitor.changes[next_change]
                row == change.lineno - popped_rows
                line == vec_content[row]
            IN  /\ pc' = "change_content"
                /\ row \in 1..Len(vec_content)
                /\ change.end_col_offset <= Len(line)
                /\ vec_content' =
                      [vec_content EXCEPT ![row] =
                          SubSeq(line, 1, change.col_offset) \o Rendered(change)
                          \o SubSeq(line, change.end_col_offset + 1, Len(line))]
      ]_vars

(***************************************************************************)
(* What is said of the output of the first run, change by change.          *)
(***************************************************************************)

\* the first run is over and returned its lines
Done == run = 1 /\ pc = "done"

SingleLine(change) == change.lineno = change.end_lineno
MultiLineChange(change) == change.lineno < change.end_lineno

\* the text of the file before the change on its first row, and after the
\* change on its last row
TextBefore(change) == SubSeq(content[change.lineno], 1, change.col_offset)
TextAfter(change) ==
    SubSeq(content[change.end_lineno], change.end_col_offset + 1,
           Len(content[change.end_lineno]))

\* <quote><template><quote>
Literal(change) == <<change.quote>> \o change.new_string_content \o <<change.quote>>

(***************************************************************************)
(* C11: a Change with an empty argument list is written as                 *)
(* <quote><template><quote> alone: no trailing comma, no trailing space,   *)
(* no arguments (stated for the file with one Change, on one row).         *)
(***************************************************************************)
C11_TemplateAlone ==
    (/\ Done
     /\ Len(visitor.changes) = 1
     /\ SingleLine(visitor.changes[1])
     /\ visitor.changes[1].new_string_variables = <<>>) =>
        LET change == visitor.changes[1] IN
        vec_content[change.lineno] =
            TextBefore(change) \o Literal(change) \o TextAfter(change)

\* the change the loop of change_content is at
Applying == pc = "change_content" /\ next_change <= Len(visitor.changes)
ThisChange == visitor.changes[next_change]

EndsWithComma(text) == text # <<>> /\ text[Len(text)] = ","

C14_ChangedFlag ==
    pc = "done" =>
        /\ content_changed <=> next_change > 1
        /\ visitor.changes = <<>> => vec_content = content
        /\ content_changed => vec_content # content

\* a file with a Change: changed = true and another text
C14_Witness ==
    /\ Done
    /\ next_change > 1
    /\ content_changed
    /\ vec_content # content

\* the quote character that delimits the literal the change is for: the first
\* quote character of the file at or after the start of the literal
OriginalQuote(change) ==
    content[change.lineno][Find(content[change.lineno], QUOTE_CHARS,
                                change.col_offset + 1)]

(***************************************************************************)
(* C15: quote fidelity per call site: the quote character of every Change  *)
(* is the quote character that delimits the original literal of its call   *)
(* site, each call site of a file by its own.                              *)
(***************************************************************************)
C15_QuoteFidelity ==
    Walked =>
        \A k \in 1..Len(visitor.changes) :
            visitor.changes[k].quote = OriginalQuote(visitor.changes[k])

\* the changes are in ascending order of their rows, no row in two of them
DisjointRows(changes) ==
    \A j, k \in 1..Len(changes) : j < k => changes[j].end_lineno < changes[k].lineno

(***************************************************************************)
(* C16: row translation: for Changes in ascending order of start row with  *)
(* pairwise disjoint rows, at every iteration of the loop popped_rows is   *)
(* the number of lines removed so far, and the replacement is written onto *)
(* the line that was at the start row of the Change in the file (index     *)
(* lineno - 1 - popped_rows), onto no other line, and never out of bounds. *)
(***************************************************************************)
C16_RowTranslation ==
    [][(Applying /\ DisjointRows(visitor.changes)) =>
          LET change == ThisChange
              row == change.lineno - popped_rows
              rows == change.end_lineno - change.lineno
          IN  /\ popped_rows = Len(content) - Len(vec_content)
              /\ row \in 1..Len(vec_content)
              /\ vec_content[row] = content[change.lineno]
              /\ pc' = "change_content"
              /\ popped_rows' = Len(content) - Len(vec_content')
              /\ vec_content'[row] # vec_content[row]
              /\ \A i \in 1..Len(vec_content') :
                    /\ i < row => vec_content'[i] = vec_content[i]
                    /\ i > row => vec_content'[i] = vec_content[i + rows]
      ]_vars

\* a Change written after a Change over two rows took a row away
C16_Witness ==
    /\ Done
    /\ Len(visitor.changes) = 2
    /\ DisjointRows(visitor.changes)
    /\ popped_rows > 0
    /\ SingleLine(visitor.changes[2])
    /\ vec_content[visitor.changes[2].lineno - popped_rows] =
          TextBefore(visitor.changes[2]) \o Rendered(visitor.changes[2])
          \o TextAfter(visitor.changes[2])

\* text ends with tail
IsSuffix(tail, text) ==
    /\ Len(tail) <= Len(text)
    /\ SubSeq(text, Len(text) - Len(tail) + 1, Len(text)) = tail

(***************************************************************************)
(* C17: for a Change over several rows, the text that followed             *)
(* end_col_offset on the last row of the Change is still in the lines      *)
(* after the splice: the line the replacement is written on, or a line     *)
(* after it, ends with that text.                                          *)
(***************************************************************************)
C17_TextAfterKept ==
    [][(Applying /\ MultiLineChange(ThisChange)) =>
          LET row == ThisChange.lineno - popped_rows
          IN  \E i \in 1..Len(vec_content') :
                 i >= row /\ IsSuffix(TextAfter(ThisChange), vec_content'[i])
      ]_vars

\* the rows of the file inside the row span of a Change, and those of them
\* that are not the first row of the span
InSpan(changes, r) ==
    \E k \in 1..Len(changes) : changes[k].lineno <= r /\ r <= changes[k].end_lineno
Continuation(changes, r) ==
    \E k \in 1..Len(changes) : changes[k].lineno < r /\ r <= changes[k].end_lineno

\* where a row of the file that no Change removes is in the output
OutputRow(changes, r) ==
    r - Cardinality({q \in 1..r : Continuation(changes, q)})

\* part is a run of consecutive characters of text
HasRun(text, part) ==
    \E i \in 0..(Len(text) - Len(part)) : SubSeq(text, i + 1, i + Len(part)) = part

\* the text of the first row of changes[k] before col_offset that belongs to
\* no other Change: from the start of the row, or from the end of the
\* nearest Change that ends on this row before it
UntouchedBefore(changes, k) ==
    LET ends == {0} \cup {changes[j].end_col_offset : j \in
                    {i \in 1..Len(changes) :
                        /\ i # k
                        /\ changes[i].end_lineno = changes[k].lineno
                        /\ changes[i].end_col_offset <= changes[k].col_offset}}
        from == CHOOSE e \in ends : \A o \in ends : o <= e
    IN  SubSeq(content[changes[k].lineno], from + 1, changes[k].col_offset)

\* every line of the file outside the row span of every Change is in the
\* output as it was, and these lines keep their order
C18_UntouchedLines ==
    Done =>
       \A r \in 1..Len(content) :
          ~InSpan(visitor.changes, r) =>
             /\ OutputRow(visitor.changes, r) \in 1..Len(vec_content)
             /\ vec_content[OutputRow(visitor.changes, r)] = content[r]

\* the text before col_offset on the line of a Change is still in the
\* output, right before the replacement
C18_TextBeforeKept ==
    Done =>
       \A k \in 1..Len(visitor.changes) :
          \E i \in 1..Len(vec_content) :
             HasRun(vec_content[i],
                    UntouchedBefore(visitor.changes, k) \o Literal(visitor.changes[k]))

(***************************************************************************)
(* C18: untouched text is preserved: every line of the file outside the    *)
(* row span of every Change is in the output verbatim and in the same      *)
(* order, and on a changed line the indentation and the text before        *)
(* col_offset are unchanged.                                               *)
(***************************************************************************)
C18_UntouchedText == C18_UntouchedLines /\ C18_TextBeforeKept

\* a logging call at or above the threshold, outside the block-list, whose
\* first argument is an f-string
QualifyingCall(e) ==
    /\ e.kind = "Call"
    /\ LevelCall(e)
    /\ RankOf(e.func.attr) >= log_level
    /\ ~BlockListed(e)
    /\ e.args # <<>>
    /\ IsFstring(e.args[1])

\* a call the visitor does not rewrite: not a logging call, or a logging call
\* below the threshold
PassedOver(call) == ~LevelCall(call) \/ RankOf(call.func.attr) < log_level

(***************************************************************************)
(* C19: the walk descends into the arguments of a call: a qualifying       *)
(* logging call in the argument list of a call that is not a logging call, *)
(* or of a logging call below the threshold, has a Change of its own.      *)
(***************************************************************************)
C19_NestedCalls ==
    Walked =>
        \A i \in 1..Len(Calls) :
            PassedOver(Calls[i]) =>
                \A a \in 1..Len(Calls[i].args) :
                    QualifyingCall(Calls[i].args[a]) =>
                        \E k \in 1..Len(visitor.changes) :
                            ChangeOf(visitor.changes[k], Calls[i].args[a].args[1])

\* the calls of the file of the run whose callee is <recv>.<name>
AttributeCalls == {i \in 1..Len(Calls) : Calls[i].func.kind = "Attribute"}

\* the severity of a lowercase level name, and none for any other name
LevelOf(name) == IF IsLevelName(name) THEN Some(RankOf(name)) ELSE None

(***************************************************************************)
(* C20, as stated: the table of level names is case-insensitive: any       *)
(* letter-case variant of debug, info, warning, warn, error, exception,    *)
(* critical has the severity of the lowercase name, every other name none. *)
(***************************************************************************)
C20_CaseInsensitiveTable ==
    Walked =>
        \A i \in AttributeCalls :
            maybe_from_str(Calls[i].func.attr) = LevelOf(Lowered(Calls[i].func.attr))

(***************************************************************************)
(* C20, amended: the table of level names is case-sensitive: exactly the   *)
(* lowercase names debug, info, warning, warn, error, exception, critical  *)
(* have a severity (warn and warning the same one); every other name, any  *)
(* other letter-case variant of these included, has none, and a call by    *)
(* such a name gets no Change.                                             *)
(***************************************************************************)
C20_CaseSensitiveTable ==
    Walked =>
        \A i \in AttributeCalls :
            /\ maybe_from_str(Calls[i].func.attr) = LevelOf(Calls[i].func.attr)
            /\ ~IsLevelName(Calls[i].func.attr) => NoChangeIn(Calls[i])

\* a call by `ERROR` with an f-string, at a threshold `error` passes, was
\* walked and left without a Change
C20_Witness ==
    /\ Walked
    /\ log_level <= Error
    /\ visitor.changes = <<>>
    /\ \E i \in AttributeCalls :
          /\ Calls[i].func.attr = UPPER_ERROR
          /\ Calls[i].args # <<>>
          /\ IsFstring(Calls[i].args[1])

(***************************************************************************)
(* C21: in a str.format() call the value of every keyword argument, a      *)
(* constant or a bare variable name, is at the positions of the argument   *)
(* list of the occurrences that reference the keyword's name (stated for   *)
(* the calls that pass a keyword and give every placeholder one argument). *)
(***************************************************************************)
C21_KeywordPlacement ==
    (/\ Converted /\ site.form = "format" /\ WellFormed(site)
     /\ site.keywords # <<>>) =>
        /\ conv.st = "Ok"
        /\ Len(conv.vars) = Len(site.slots)
        /\ \A i \in 1..Len(site.slots) :
              site.slots[i].name # <<>> =>
                 conv.vars[i] = ArgText(KeywordValue(site, site.slots[i].name))

\* the placeholders no keyword of the call fills: they are open to the
\* positional arguments
OpenSlots(s) ==
    {i \in 1..Len(s.slots) : s.slots[i].name = <<>> \/ ~HasKeyword(s, s.slots[i].name)}

(***************************************************************************)
(* C22: more positional arguments than open placeholders in a str.format() *)
(* call is the only condition that makes the builders fail hard: every     *)
(* other site (fewer arguments than placeholders, a keyword no placeholder *)
(* references, an unsupported expression) fails soft or is converted.      *)
(***************************************************************************)
C22_OnlyExcessPanics ==
    (Converted /\ conv.st = "Panic") =>
        /\ site.form = "format"
        /\ site.npos > Cardinality(OpenSlots(site))

\* a qualifying call whose f-string has an interpolation point the resolver
\* does not read
UnresolvedSite(call) == QualifyingCall(call) /\ ~PointsResolve(call.args[1])

(***************************************************************************)
(* C23: all-or-nothing resolution: a call site one of whose interpolation  *)
(* points fails to resolve (an unsupported kind of node, a nested          *)
(* f-string) gets no Change at all, the walk of the file does not fail,    *)
(* and the other call sites of the file still get their Change.            *)
(***************************************************************************)
C23_AllOrNothing ==
    (pc # "get_changes" /\ \E i \in 1..Len(Calls) : UnresolvedSite(Calls[i])) =>
        /\ visitor.st = "Ok"
        /\ \A i \in 1..Len(Calls) :
              /\ UnresolvedSite(Calls[i]) => NoChangeIn(Calls[i])
              /\ (QualifyingCall(Calls[i]) /\ PointsResolve(Calls[i].args[1])) =>
                    \E k \in 1..Len(visitor.changes) :
                        ChangeOf(visitor.changes[k], Calls[i].args[1])

\* a file was walked whose first call has a point that resolves followed by
\* one that does not, and whose second call got the only Change
C23_Witness ==
    /\ Walked
    /\ Len(Calls) = 2
    /\ UnresolvedSite(Calls[1])
    /\ Len(Calls[1].args[1].values) = 2
    /\ Calls[1].args[1].values[1].value.kind \in SUPPORTED_KINDS
    /\ QualifyingCall(Calls[2]) /\ PointsResolve(Calls[2].args[1])
    /\ Len(visitor.changes) = 1
    /\ ChangeOf(visitor.changes[1], Calls[2].args[1])

(***************************************************************************)
(* C24: quote inference yields only the two quote characters: the quote    *)
(* field of every Change is `'` or `"`; a literal whose start position     *)
(* (after at most one `f`) holds another character gets no Change.         *)
(***************************************************************************)
C24_QuoteIsQuoteChar ==
    Walked =>
        \A k \in 1..Len(visitor.changes) : visitor.changes[k].quote \in QUOTE_CHARS

\* the site is an f-string of one interpolation point, a constant
ConstantPoint(s) ==
    /\ s.form = "fstring"
    /\ Len(s.values) = 1
    /\ s.values[1].kind = "FormattedValue"
    /\ s.values[1].value.kind = "Constant"

RECURSIVE Spelling(_)
\* a constant as the source text of the rewritten language spells it
Spelling(c) ==
    CASE c.ctype = "None" -> <<"N", "o", "n", "e">>
      [] c.ctype = "Bool" ->
            IF c.b THEN <<"T", "r", "u", "e">> ELSE <<"F", "a", "l", "s", "e">>
      [] c.ctype = "Str" -> c.text
      [] c.ctype = "Int" -> c.text
      [] c.ctype = "Ellipsis" -> <<".", ".", ".">>
      [] c.ctype = "Tuple" ->
            <<"(">> \o Join([i \in 1..Len(c.items) |-> Spelling(c.items[i])], COMMA)
            \o <<")">>

(***************************************************************************)
(* C25: literal-to-text rules: a constant moved out of the string is       *)
(* rendered None for none, True and False for the booleans, its text for a *)
(* string, ... for ellipsis, and its items, rendered by the same rules and *)
(* joined by `, `, inside parentheses for a tuple.                         *)
(***************************************************************************)
C25_LiteralToText ==
    (Converted /\ ConstantPoint(site)) =>
        /\ conv.st = "Ok"
        /\ conv.vars = <<Spelling(site.values[1].value.value)>>

\* the site is an f-string of one interpolation point
OnePoint(s) ==
    /\ s.form = "fstring"
    /\ Len(s.values) = 1
    /\ s.values[1].kind = "FormattedValue"

\* the expressions a call or a comprehension holds: the receiver and the
\* arguments of a call, the element, targets and iterables of a comprehension
Held(e) ==
    LET Generators ==
            UNION {{e.generators[i].target, e.generators[i].iter} :
                       i \in 1..Len(e.generators)}
    IN  CASE e.kind = "Call" ->
                {e.args[i] : i \in 1..Len(e.args)}
                \cup (IF e.func.kind = "Attribute" THEN {e.func.value} ELSE {})
          [] e.kind \in {"ListComp", "GeneratorExp"} -> {e.elt} \cup Generators
          [] e.kind = "DictComp" -> {e.key, e.value} \cup Generators
          [] OTHER -> {}

RECURSIVE HeldLiterals(_)
\* the literals inside the calls and comprehensions of an expression
HeldLiterals(e) ==
    {h.value : h \in {x \in Held(e) : x.kind = "Constant"}}
    \cup UNION {HeldLiterals(h) : h \in {x \in Held(e) : x.kind # "Constant"}}

\* the text holds the literal between two quote characters q
InQuotes(text, c, q) == HasRun(text, <<q>> \o constant_to_string(c) \o <<q>>)

(***************************************************************************)
(* C26: quoting of literals by the resolver: a string literal inside a     *)
(* call (receiver or argument) or a comprehension is rendered between the  *)
(* quote characters of the call site; a literal that is not a string is    *)
(* rendered without quotes, as a bare interpolation value and inside calls *)
(* and comprehensions.                                                     *)
(***************************************************************************)
C26_LiteralQuoting ==
    (Converted /\ OnePoint(site) /\ site.values[1].value \in SinglePoints) =>
        /\ conv.st = "Ok"
        /\ \A c \in HeldLiterals(site.values[1].value) :
              InQuotes(conv.vars[1], c, site.quote) <=> c.ctype = "Str"
        /\ (ConstantPoint(site) /\ site.values[1].value.value.ctype # "Str") =>
              \A i \in 1..Len(conv.vars[1]) : conv.vars[1][i] \notin QUOTE_CHARS

\* the changes of the walk that lie on the row, in the order of the walk
OnRow(row) == SelectSeq(visitor.changes, LAMBDA c : c.lineno = row /\ c.end_lineno = row)

\* the changes are in ascending order of their columns, no column in two
DisjointColumns(changes) ==
    \A j, k \in 1..Len(changes) :
        j < k => changes[j].end_col_offset <= changes[k].col_offset

RECURSIVE RowSplice(_, _)
\* the line with the range of every change replaced by its rendered call, the
\* ranges taken in the line as the file has it
RowSplice(line, changes) ==
    IF changes = <<>> THEN line
    ELSE LET c == changes[Len(changes)]
         IN  RowSplice(SubSeq(line, 1, c.col_offset) \o Rendered(c)
                       \o SubSeq(line, c.end_col_offset + 1, Len(line)),
                       SubSeq(changes, 1, Len(changes) - 1))

\* every change of the walk is on one row, and some row has several of them,
\* none overlapping another
SeveralOnOneRow ==
    /\ Walked /\ run = 1
    /\ \A k \in 1..Len(visitor.changes) : SingleLine(visitor.changes[k])
    /\ \E row \in 1..Len(content) : Len(OnRow(row)) >= 2
    /\ \A row \in 1..Len(content) : DisjointColumns(OnRow(row))

(***************************************************************************)
(* C27: several Changes on one row: when two or more single-line Changes   *)
(* that do not overlap lie on one row, change_content ends without         *)
(* failure and every line of the output is the line of the file with the   *)
(* literal of each of its Changes replaced: the later replacements land on *)
(* their own call sites, the text between and after them is kept.          *)
(***************************************************************************)
C27_SeveralOnOneRow ==
    (SeveralOnOneRow /\ pc \in {"done", "panicked"}) =>
        /\ pc = "done"
        /\ vec_content = [row \in 1..Len(content) |-> RowSplice(content[row], OnRow(row))]

\* the template and the arguments of the change are those of the f-string
BuiltFrom(change, fstring) ==
    LET Same(r) ==
            /\ r.some
            /\ change.new_string_content = r.v.content
            /\ change.new_string_variables = r.v.vars
    IN  Same(fix_fstring(fstring.values, change.quote))

(***************************************************************************)
(* C28: each Change is built from its own span: the template and the       *)
(* arguments of the Change made for an f-string argument of a logging call *)
(* are derived from the interpolation points of that argument, not from    *)
(* those of another argument of the call.                                  *)
(***************************************************************************)
C28_OwnSpan ==
    Walked =>
        \A i \in 1..Len(Calls) : \A a \in 1..Len(Calls[i].args) :
            \A k \in 1..Len(visitor.changes) :
                (IsFstring(Calls[i].args[a]) /\ ChangeOf(visitor.changes[k], Calls[i].args[a]))
                    => BuiltFrom(visitor.changes[k], Calls[i].args[a])

\* the pieces of the text between the occurrences of the character
Pieces(text, ch) ==
    LET Cuts == {i \in 1..Len(text) : text[i] = ch} \cup {0, Len(text) + 1}
        Cut(k) == CHOOSE c \in Cuts : Cardinality({d \in Cuts : d < c}) = k
    IN  [k \in 1..(Cardinality(Cuts) - 1) |-> SubSeq(text, Cut(k - 1) + 1, Cut(k) - 1)]

RECURSIVE DottedName(_)
\* a.b.c as the language reads it: the attribute c of the attribute b of a
DottedName(names) ==
    IF Len(names) = 1
    THEN IF names[1][1] \in DIGIT_CHARS THEN Constant(CInt(names[1])) ELSE Name(names[1])
    ELSE Attribute(DottedName(SubSeq(names, 1, Len(names) - 1)), names[Len(names)])

\* the operators by their signs, the ones that bind less first
SUM_SIGNS == {<<"+">>, <<"-">>}
TERM_SIGNS == {<<"*">>, <<"%">>}
OperatorOf(sign) ==
    CASE sign = <<"+">> -> "Add"
      [] sign = <<"-">> -> "Sub"
      [] sign = <<"*">> -> "Mult"
      [] sign = <<"%">> -> "Mod"

RECURSIVE ReadTerm(_)
\* operand (sign operand)* of the signs * and %, grouped from the left
ReadTerm(words) ==
    LET Signs == {i \in 1..Len(words) : words[i] \in TERM_SIGNS}
        Last(i) ==
            BinOp(ReadTerm(SubSeq(words, 1, i - 1)), OperatorOf(words[i]),
                  DottedName(Pieces(words[i + 1], ".")))
    IN  IF Signs = {} THEN DottedName(Pieces(words[1], "."))
        ELSE Last(CHOOSE i \in Signs : \A j \in Signs : j <= i)

RECURSIVE ReadSum(_)
\* term (sign term)* of the signs + and -, grouped from the left
ReadSum(words) ==
    LET Signs == {i \in 1..Len(words) : words[i] \in SUM_SIGNS}
        Last(i) ==
            BinOp(ReadSum(SubSeq(words, 1, i - 1)), OperatorOf(words[i]),
                  ReadTerm(SubSeq(words, i + 1, Len(words))))
    IN  IF Signs = {} THEN ReadTerm(words)
        ELSE Last(CHOOSE i \in Signs : \A j \in Signs : j <= i)

\* the expression tree a text without brackets denotes
Denoted(text) == ReadSum(Pieces(text, " "))

(***************************************************************************)
(* C29: rendering round-trip for operators: for every expression tree of   *)
(* names, constants, attribute access and binary operations the text the   *)
(* resolver produces denotes the tree it was given: the grouping of nested *)
(* binary operations, (a + b) * c, and of an attribute taken on a binary   *)
(* operation, (a + b).c, is kept.                                          *)
(***************************************************************************)
C29_OperatorRoundTrip ==
    (Converted /\ OnePoint(site) /\ site.values[1].value \in OperatorTrees) =>
        /\ conv.st = "Ok"
        /\ Denoted(conv.vars[1]) = site.values[1].value

\* a logging call whose first argument is <expr>.format(...), <expr> not a
\* string literal
VariableFormatSite(call) ==
    /\ LevelCall(call)
    /\ call.args # <<>>
    /\ IsFormatCall(call.args[1])
    /\ call.args[1].func.value.kind # "Constant"

(***************************************************************************)
(* C30: a logging call whose first argument is <expr>.format(...), <expr>  *)
(* a variable and not a string literal, gets no Change, and the walk of    *)
(* its file does not fail hard, whatever the positional and keyword        *)
(* arguments of the .format() call.                                        *)
(***************************************************************************)
C30_VariableFormat ==
    (pc # "get_changes" /\ \E i \in 1..Len(Calls) : VariableFormatSite(Calls[i])) =>
        /\ visitor.st = "Ok"
        /\ \A i \in 1..Len(Calls) : VariableFormatSite(Calls[i]) => NoChangeIn(Calls[i])

====
